---- MODULE Spec2Model ----
(***************************************************************************)
(* A model of the MCP aggregator (jondmarien/orchestrator):                *)
(*   - AggregationController (mcp/aggregator/controller.py) with its       *)
(*     Catalog (catalog.py) and merge helpers (merge.py);                  *)
(*   - _FallbackUpstreamClient (mcp/aggregator/client.py), the JSON-RPC    *)
(*     session over an upstream's stdio pipes.                             *)
(* Names are sequences of one-character strings, so that _sanitize and     *)
(* str.split are computed character by character as the code does.         *)
(***************************************************************************)
EXTENDS Integers, Sequences, FiniteSets, TLC

VARIABLES
    \* ---- AggregationController ----
    cfgs,       \* upstream configurations, in configuration order
    legacy,     \* TRUE iff the controller was built from upstream processes
    env,        \* os.environ: ORCH_INCLUDE_TOOLS / ORCH_EXCLUDE_TOOLS
    upTools,    \* upTools[k]: the tool list upstream k answers tools/list with
    started,    \* self._started
    rr,         \* self._rr
    catalog,    \* self._catalog: [built, tools]
    lastReq,    \* the (method, params) of the latest route_request
    sent,       \* sent[k]: requests handed to client k during that call
    replied,    \* the clients whose tools/list fan-out calls returned during it
    lastResp,   \* what that route_request returned
    listed,     \* the tool names of the latest tools/list result
    \* ---- _FallbackUpstreamClient (one session) ----
    next_id,    \* self._next_id
    pending,    \* self._pending: request id -> the future registered under it
    closed,     \* self._closed
    reader,     \* self._reader_task: "none", "running", "cancelled", "eof"
    call,       \* call[c]: one send_request coroutine and its local variables
    wire,       \* the request frames written to the upstream's stdin, in order
    replies,    \* replies[i]: the upstream's reply to frame wire[i]
    proc,       \* the upstream process: [eof, stdin]
    \* ---- the controller's callers and its clients' sessions ----
    task,       \* task[t]: one coroutine calling a controller method
    startCalls, \* startCalls[k]: how often client k's start() has been invoked
    sessions,   \* sessions[k]: the reader tasks of the sessions client k has
                \* created, oldest first; the last one is the client's current
    \* ---- MCPAggregatorServer.start_stdio ----
    stdin,      \* the client's input: [frames, pos, closed]
    srv,        \* the start_stdio coroutine: its position and local variables
    shutdown_event,  \* self._shutdown_event.is_set()
    log,        \* the controller calls made and the frames written to stdout
    \* ---- StdoutGuard ----
    sys_stdout, \* what sys.stdout is bound to
    guards,     \* the StdoutGuard objects: their position and _orig_stdout
    \* ---- the two frame decoders ----
    stream,     \* the bytes of a stream of frames
    dec,        \* dec.framer, dec.reader: each decoder's position and output
    \* ---- _build_catalog coroutines ----
    builds      \* builds[t]: a request that may run _build_catalog, its position
                \* and its local catalog

ctlVars ==
    <<cfgs, legacy, env, upTools, started, rr, catalog, lastReq, sent, replied,
      lastResp, listed>>

sessVars == <<next_id, pending, closed, reader, call, wire, replies, proc>>

lifeVars == <<task, startCalls, sessions>>

srvVars == <<stdin, srv, shutdown_event, log>>

outVars == <<sys_stdout, guards>>

decVars == <<stream, dec>>

bldVars == <<builds>>

vars == <<ctlVars, sessVars, lifeVars, srvVars, outVars, decVars, bldVars>>

(***************************************************************************)
(* Bounds of the model.                                                    *)
(***************************************************************************)
MaxRR == 2         \* route_request calls per behaviour
NumCalls == 2      \* send_request calls per session
MaxRetries == 1    \* largest retries argument of send_request
MaxFrames == 3     \* request frames written per session
NumTasks == 3      \* coroutines calling the controller
NumGuards == 3     \* StdoutGuard objects per behaviour
NumFrames == 2     \* frames in a decoded stream
NumBuilds == 2     \* concurrent requests that may build the catalog
MaxMsgs == 2       \* frames the client sends to the server

(***************************************************************************)
(* Strings as character sequences.                                         *)
(***************************************************************************)
Str_a == <<"a">>
Str_a_dash_b == <<"a", "-", "b">>
Str_c == <<"c">>
Str_b_us_c == <<"b", "_", "c">>

\* Optional values: <<>> is Python's None, <<v>> is the value v.
None == <<>>
Some(v) == <<v>>
IsNone(o) == Len(o) = 0
ValueOf(o) == o[1]

\* controller.py:119-121   name.replace("-", "_")
_sanitize(name) == [i \in 1..Len(name) |-> IF name[i] = "-" THEN "_" ELSE name[i]]

\* controller.py:158   f"{self._sanitize(upstream_name)}_{self._sanitize(original_name)}"
PresentedName(upstream_name, original_name) ==
    _sanitize(upstream_name) \o <<"_">> \o _sanitize(original_name)

\* str.split(","): the maximal comma-free pieces, empty ones included.
RECURSIVE SplitFrom(_, _, _)
SplitFrom(s, i, cur) ==
    IF i > Len(s) THEN <<cur>>
    ELSE IF s[i] = "," THEN <<cur>> \o SplitFrom(s, i + 1, <<>>)
    ELSE SplitFrom(s, i + 1, Append(cur, s[i]))
Split(s) == SplitFrom(s, 1, <<>>)

Range(f) == {f[i] : i \in DOMAIN f}

(***************************************************************************)
(* Inputs: upstream configurations, tool descriptors, requests.            *)
(***************************************************************************)
Cfg(name, include, exclude) ==
    [name |-> name, include_tools |-> include, exclude_tools |-> exclude]

\* Two upstreams; their names and the tool names below collide after
\* sanitization in both of the ways the presented-name scheme allows.
UpstreamNames == <<Str_a, Str_a_dash_b>>
Clients == 1..Len(UpstreamNames)

Item(name, description) == [name |-> name, description |-> description]
\* The tools an upstream may advertise: upstream "a" with tool "b_c" and
\* upstream "a-b" with tool "c" get the same presented name.
Items == { Item(Str_c, <<>>), Item(Str_b_us_c, <<"x">>) }

\* include_tools / exclude_tools of an upstream: unset, or a list of names (the
\* code only asks for membership, so a set); "b-c" matches the tool "b_c" once
\* both are sanitized
Str_b_dash_c == <<"b", "-", "c">>
FilterChoices ==
    { [include |-> None, exclude |-> None],
      [include |-> Some({Str_c}), exclude |-> None],
      [include |-> None, exclude |-> Some({Str_b_dash_c})] }

SeqsUpTo(S, n) == UNION { [1..k -> S] : k \in 0..n }
NoRepeat(s) == \A i, j \in DOMAIN s : s[i] = s[j] => i = j
\* every list of distinct tools, in every order
ToolLists == { s \in SeqsUpTo(Items, Cardinality(Items)) : NoRepeat(s) }

\* The prompt list of upstream k (fixed: only tools are catalogued for routing).
UpPrompts(k) == << Item(<<"p">>, UpstreamNames[k]) >>

\* params of a request: None, or a map with a string "name".
NoParams == [kind |-> "none", name |-> <<>>]
CallParams(n) == [kind |-> "dict", name |-> n]

Req(method, params) == [method |-> method, params |-> params]

CallNames ==
    { PresentedName(UpstreamNames[k], it.name) : k \in Clients, it \in Items }
    \cup { it.name : it \in Items }

EnvChoices ==
    { [include |-> None, exclude |-> None],
      [include |-> None, exclude |-> Some(<<"a", "_", "b", "_", "c">>)],
      [include |-> Some(<<"a", "_", "c", ",", "c">>), exclude |-> None],
      [include |-> Some(<<"a", "_", "c", ",", "c">>),
       exclude |-> Some(<<"a", "_", "b", "_", "c">>)] }

(***************************************************************************)
(* Responses of route_request and of an upstream.                          *)
(***************************************************************************)
Resp(kind, code, text, name, items, by) ==
    [kind |-> kind, code |-> code, text |-> text, name |-> name, items |-> items, by |-> by]

NoResp == Resp("none", 0, "", <<>>, <<>>, 0)
ErrorResp(code, text, name) == Resp("error", code, text, name, <<>>, 0)
ListResp(items) == Resp("result", 0, "list", <<>>, items, 0)
\* the reply of upstream k to tools/call (or any other method) with tool name n
UpstreamResult(k, n) == Resp("result", 0, "upstream", n, <<>>, k)
UpstreamError(k, n) == Resp("error", -1, "upstream", n, <<>>, k)

(***************************************************************************)
(* Catalog (catalog.py): tools is a dict in insertion order, modelled as a *)
(* sequence of entries with pairwise different presented names.            *)
(***************************************************************************)
NoCatalog == [built |-> FALSE, tools |-> <<>>]

Entry(presented, item, upstream, original_name) ==
    [presented |-> presented, item |-> item, upstream |-> upstream,
     original_name |-> original_name]

\* mutant: a list that appends instead of a dict that replaces
set_tool_Append(tools, presented, item, upstream, original_name) ==
    Append(tools, Entry(presented, item, upstream, original_name))

\* catalog.py:15-22   self.tools[presented_name] = {...}: a key that is already
\* there keeps its position and takes the new value.
set_tool(tools, presented, item, upstream, original_name) ==
    IF \E i \in DOMAIN tools : tools[i].presented = presented
    THEN [i \in DOMAIN tools |->
            IF tools[i].presented = presented
            THEN Entry(presented, item, upstream, original_name)
            ELSE tools[i]]
    ELSE Append(tools, Entry(presented, item, upstream, original_name))

HasTool(cat, presented) == \E i \in DOMAIN cat.tools : cat.tools[i].presented = presented
ToolEntry(cat, presented) ==
    cat.tools[CHOOSE i \in DOMAIN cat.tools : cat.tools[i].presented = presented]

\* catalog.py:30-36
get_tool_upstream(cat, presented) ==
    IF HasTool(cat, presented) THEN Some(ToolEntry(cat, presented).upstream) ELSE None
get_tool_original(cat, presented) ==
    IF HasTool(cat, presented) THEN Some(ToolEntry(cat, presented).original_name) ELSE None

(***************************************************************************)
(* merge.py                                                                *)
(***************************************************************************)
RECURSIVE Flatten(_, _)
Flatten(lists, i) == IF i > Len(lists) THEN <<>> ELSE lists[i] \o Flatten(lists, i + 1)

RECURSIVE MergeFrom(_, _, _, _)
MergeFrom(flat, i, seen, merged) ==
    IF i > Len(flat) THEN merged
    ELSE IF flat[i].name \notin seen
         THEN MergeFrom(flat, i + 1, seen \cup {flat[i].name}, Append(merged, flat[i]))
         ELSE MergeFrom(flat, i + 1, seen, merged)

\* mutant: concatenation without the seen-set
merge_named_lists_NoSeen(lists) == Flatten(lists, 1)

\* merge.py:42-51
merge_named_lists(lists) == MergeFrom(Flatten(lists, 1), 1, {}, <<>>)

(***************************************************************************)
(* AggregationController._build_catalog (controller.py:123-200)            *)
(***************************************************************************)
\* mutant: the filter lists are compared as configured, unsanitized
PassesFilter_Raw(cfg, original_name) ==
    LET norm == _sanitize(original_name) IN
    /\ \/ IsNone(cfg.include_tools)
       \/ norm \in ValueOf(cfg.include_tools)
    /\ \/ IsNone(cfg.exclude_tools)
       \/ norm \notin ValueOf(cfg.exclude_tools)

\* controller.py:145-156   per-server filters on the sanitized original name
PassesFilter(cfg, original_name) ==
    LET norm == _sanitize(original_name) IN
    /\ \/ IsNone(cfg.include_tools)
       \/ norm \in { _sanitize(x) : x \in ValueOf(cfg.include_tools) }
    /\ \/ IsNone(cfg.exclude_tools)
       \/ norm \notin { _sanitize(x) : x \in ValueOf(cfg.exclude_tools) }

\* controller.py:157-163   copy of the item under its presented name
PresentedItem(upstream_name, item) ==
    Item(PresentedName(upstream_name, item.name),
         IF Len(item.description) > 0
         THEN <<"[">> \o upstream_name \o <<"]", " ">> \o item.description
         ELSE item.description)

RECURSIVE AddItems(_, _, _, _)
AddItems(tools, cfg, lst, i) ==
    IF i > Len(lst) THEN tools
    ELSE IF PassesFilter(cfg, lst[i].name)
         THEN AddItems(set_tool(tools, PresentedName(cfg.name, lst[i].name),
                                PresentedItem(cfg.name, lst[i]), cfg.name, lst[i].name),
                       cfg, lst, i + 1)
         ELSE AddItems(tools, cfg, lst, i + 1)

\* ok: the clients whose tools/list call returned a result (the others raised)
RECURSIVE BuildFrom(_, _, _)
BuildFrom(tools, k, ok) ==
    IF k > Len(cfgs) THEN tools
    ELSE BuildFrom(IF k \in ok THEN AddItems(tools, cfgs[k], upTools[k], 1) ELSE tools,
                   k + 1, ok)

_build_catalog(ok) == [built |-> TRUE, tools |-> BuildFrom(<<>>, 1, ok)]

SentReq(method, name) == [method |-> method, name |-> name]

\* the three fan-outs of one catalog build, as each client sees them
BuildSent ==
    << SentReq("tools/list", <<>>), SentReq("prompts/list", <<>>),
       SentReq("resources/list", <<>>) >>

(***************************************************************************)
(* AggregationController._aggregate_list (controller.py:202-246)           *)
(***************************************************************************)
\* mutant: the lists of the clients that raised are merged too
OkLists_All(k, ok) == [i \in DOMAIN cfgs |-> i]

\* controller.py:211-218, 234-241   the clients whose reply is kept, in order
RECURSIVE OkLists(_, _)
OkLists(k, ok) ==
    IF k > Len(cfgs) THEN <<>>
    ELSE (IF k \in ok THEN <<k>> ELSE <<>>) \o OkLists(k + 1, ok)

UpstreamList(method, k) == IF method = "tools/list" THEN upTools[k] ELSE UpPrompts(k)

\* cat: the catalog as _build_catalog has just left it
_aggregate_list(method, cat, okAgg) ==
    IF method = "tools/list" /\ ~legacy
    THEN [i \in DOMAIN cat.tools |-> cat.tools[i].item]
    ELSE LET oks == OkLists(1, okAgg) IN
         merge_named_lists([i \in DOMAIN oks |-> UpstreamList(method, oks[i])])

AggregateSent(method) ==
    IF method = "tools/list" /\ ~legacy THEN <<>> ELSE <<SentReq(method, <<>>)>>

(***************************************************************************)
(* AggregationController.route_request (controller.py:63-117)              *)
(***************************************************************************)
Truthy(o) == ~IsNone(o) /\ Len(ValueOf(o)) > 0

\* mutant: the exclude list is not consulted
GlobalFilter_IncludeOnly(name) ==
    IF Truthy(env.include) /\ name \notin Range(Split(ValueOf(env.include)))
    THEN ErrorResp(-32601, "Tool not allowed", name)
    ELSE NoResp

\* controller.py:75-84   NoResp when the call may proceed
GlobalFilter(name) ==
    IF Truthy(env.include) /\ name \notin Range(Split(ValueOf(env.include)))
    THEN ErrorResp(-32601, "Tool not allowed", name)
    ELSE IF Truthy(env.exclude) /\ name \in Range(Split(ValueOf(env.exclude)))
    THEN ErrorResp(-32601, "Tool excluded", name)
    ELSE NoResp

\* controller.py:86   self._rr += 1
AfterDispatch(n) == n + 1

\* mutant: the counter is not consulted, the first client is chosen every time
RoundRobinClient_First == (0 % Len(cfgs)) + 1

\* controller.py:85
RoundRobinClient == (rr % Len(cfgs)) + 1

\* mutant: the owner is found but params.name is not rewritten
CatalogClient_KeepName(cat, name) ==
    LET target == get_tool_upstream(cat, name)
        hits == IF IsNone(target) THEN {}
                ELSE { k \in DOMAIN cfgs : cfgs[k].name = ValueOf(target) }
    IN IF hits = {} THEN None
       ELSE Some([client |-> CHOOSE k \in hits : \A j \in hits : k <= j,
                  name |-> name])

\* controller.py:103-111   the first client whose upstream name is the target
CatalogClient(cat, name) ==
    LET target == get_tool_upstream(cat, name)
        original == get_tool_original(cat, name)
        hits == IF IsNone(target) \/ IsNone(original) THEN {}
                ELSE { k \in DOMAIN cfgs : cfgs[k].name = ValueOf(target) }
    IN IF hits = {} THEN None
       ELSE Some([client |-> CHOOSE k \in hits : \A j \in hits : k <= j,
                  name |-> ValueOf(original)])

\* mutant: no except clause, an exception leaves route_request
Envelope_Propagate(outcome, k, name) ==
    CASE outcome = "result" -> UpstreamResult(k, name)
      [] outcome \in {"error", "both"} -> UpstreamError(k, name)
      [] OTHER -> Resp("raised", 0, "", <<>>, <<>>, 0)

\* mutant: the upstream's reply is handed back with the keys it came with
Envelope_AsReplied(outcome, k, name) ==
    CASE outcome = "result" -> UpstreamResult(k, name)
      [] outcome = "error" -> UpstreamError(k, name)
      [] outcome = "both" -> Resp("both", -1, "upstream", name, <<>>, k)
      [] OTHER -> ErrorResp(-32001, "Upstream request failed", <<>>)

\* controller.py:112-117   outcome: what send_request did: it returned a reply
\* with the key "result", with "error", with both, or it raised
Envelope(outcome, k, name) ==
    CASE outcome = "result" -> UpstreamResult(k, name)
      [] outcome \in {"error", "both"} -> UpstreamError(k, name)
      [] OTHER -> ErrorResp(-32001, "Upstream request failed", <<>>)

Outcomes == {"result", "error", "both", "raise"}

\* build: the clients that answered the catalog build's tools/list;
\* agg: those that answered the fan-out of _aggregate_list
Replied(build, agg) == [build |-> build, agg |-> agg]

NamesOf(items) == { items[i].name : i \in DOMAIN items }
NoSent == [k \in DOMAIN cfgs |-> <<>>]

\* The caller of route_request holds its return value (lastResp) until it
\* issues the next request; Idle is the controller between two requests.
Idle == lastResp.kind = "none"

\* discovery: tools/list, prompts/list (controller.py:89-92)
RouteDiscovery(method, okBuild, okAgg) ==
    LET cat == _build_catalog(okBuild) IN
    /\ Idle
    /\ rr < MaxRR
    /\ Len(cfgs) > 0
    /\ AggregateSent(method) = <<>> => okAgg = {}
    /\ started' = TRUE
    /\ rr' = AfterDispatch(rr)
    /\ lastReq' = Req(method, NoParams)
    /\ catalog' = cat
    /\ sent' = [k \in DOMAIN cfgs |-> BuildSent \o AggregateSent(method)]
    /\ replied' = Replied(okBuild, IF AggregateSent(method) = <<>> THEN {} ELSE okAgg)
    /\ lastResp' = ListResp(_aggregate_list(method, cat, okAgg))
    /\ listed' = IF method = "tools/list"
                 THEN NamesOf(_aggregate_list(method, cat, okAgg))
                 ELSE listed
    /\ UNCHANGED <<cfgs, legacy, env, upTools>>
    /\ UNCHANGED <<sessVars, lifeVars, srvVars, outVars, decVars, bldVars>>

\* discovery during which _build_catalog raises: a tools/list reply whose
\* result holds an item that is not a map makes item.get raise
\* (controller.py:136-137); the exception is caught at controller.py:113-114
\* before self._catalog is assigned (controller.py:199)
RouteDiscoveryRaises(method) ==
    /\ Idle
    /\ rr < MaxRR
    /\ Len(cfgs) > 0
    /\ started' = TRUE
    /\ rr' = AfterDispatch(rr)
    /\ lastReq' = Req(method, NoParams)
    /\ sent' = [k \in DOMAIN cfgs |-> <<SentReq("tools/list", <<>>)>>]
    /\ replied' = Replied({}, {})
    /\ lastResp' = Envelope("raise", 0, <<>>)
    /\ UNCHANGED <<cfgs, legacy, env, upTools, catalog, listed>>
    /\ UNCHANGED <<sessVars, lifeVars, srvVars, outVars, decVars, bldVars>>

\* tools/call with a map as params and a string name (controller.py:75-84, 94-112)
\* environ: os.environ as this call reads it
RouteToolsCall(params, environ, okBuild, outcome) ==
    LET name == params.name
        cat == IF catalog.built THEN catalog ELSE _build_catalog(okBuild)
        hit == CatalogClient(cat, name)
        client == IF IsNone(hit) THEN RoundRobinClient ELSE ValueOf(hit).client
        fwd == IF IsNone(hit) THEN name ELSE ValueOf(hit).name
    IN
    /\ Idle
    /\ rr < MaxRR
    /\ Len(cfgs) > 0
    /\ catalog.built => okBuild = {}
    /\ started' = TRUE
    /\ env' = environ
    /\ lastReq' = Req("tools/call", params)
    /\ IF GlobalFilter(name)' # NoResp
       THEN /\ lastResp' = GlobalFilter(name)'
            /\ sent' = NoSent
            /\ replied' = Replied({}, {})
            /\ outcome = "raise" /\ okBuild = {}
            /\ UNCHANGED <<rr, catalog>>
       ELSE /\ rr' = AfterDispatch(rr)
            /\ catalog' = cat
            /\ replied' = Replied(okBuild, {})
            /\ sent' = [k \in DOMAIN cfgs |->
                          (IF catalog.built THEN <<>> ELSE BuildSent)
                          \o (IF k = client THEN <<SentReq("tools/call", fwd)>> ELSE <<>>)]
            /\ lastResp' = Envelope(outcome, client, fwd)
    /\ UNCHANGED <<cfgs, legacy, upTools, listed>>
    /\ UNCHANGED <<sessVars, lifeVars, srvVars, outVars, decVars, bldVars>>

\* params of a tools/call that carry no string name: None, a JSON array, or a
\* map whose "name" is missing or not a string
NamelessParams ==
    { [kind |-> k, name |-> <<>>] : k \in {"none", "list", "dict_nameless"} }

\* tools/call without a string name: the global filters are skipped
\* (controller.py:78-80: name is None, isinstance(name, str) fails), so is the
\* catalog (controller.py:94-96), and the request goes out by round-robin
\* (controller.py:85-86, 112)
RouteToolsCallNameless(params, environ, outcome) ==
    /\ Idle
    /\ rr < MaxRR
    /\ Len(cfgs) > 0
    /\ started' = TRUE
    /\ env' = environ
    /\ rr' = AfterDispatch(rr)
    /\ lastReq' = Req("tools/call", params)
    /\ sent' = [k \in DOMAIN cfgs |->
                  IF k = RoundRobinClient THEN <<SentReq("tools/call", <<>>)>> ELSE <<>>]
    /\ replied' = Replied({}, {})
    /\ lastResp' = Envelope(outcome, RoundRobinClient, <<>>)
    /\ UNCHANGED <<cfgs, legacy, upTools, catalog, listed>>
    /\ UNCHANGED <<sessVars, lifeVars, srvVars, outVars, decVars, bldVars>>

\* any other method: round-robin (controller.py:85-86, 112)
RouteOther(method, outcome) ==
    /\ Idle
    /\ rr < MaxRR
    /\ Len(cfgs) > 0
    /\ started' = TRUE
    /\ rr' = AfterDispatch(rr)
    /\ lastReq' = Req(method, NoParams)
    /\ sent' = [k \in DOMAIN cfgs |->
                  IF k = RoundRobinClient THEN <<SentReq(method, <<>>)>> ELSE <<>>]
    /\ replied' = Replied({}, {})
    /\ lastResp' = Envelope(outcome, RoundRobinClient, <<>>)
    /\ UNCHANGED <<cfgs, legacy, env, upTools, catalog, listed>>
    /\ UNCHANGED <<sessVars, lifeVars, srvVars, outVars, decVars, bldVars>>

\* the caller has taken the response (server.py:91-101 writes it out)
ReturnToCaller ==
    /\ ~Idle
    /\ lastReq' = Req("", NoParams)
    /\ sent' = NoSent
    /\ replied' = Replied({}, {})
    /\ lastResp' = NoResp
    /\ UNCHANGED <<cfgs, legacy, env, upTools, started, rr, catalog, listed>>
    /\ UNCHANGED <<sessVars, lifeVars, srvVars, outVars, decVars, bldVars>>

NoEnv == [include |-> None, exclude |-> None]

\* the controller as constructed (controller.py:25-42), its inputs still open
ControllerFields ==
    /\ env = NoEnv
    /\ started = FALSE
    /\ rr = 0
    /\ catalog = NoCatalog
    /\ lastReq = Req("", NoParams)
    /\ sent = [k \in Clients |-> <<>>]
    /\ replied = Replied({}, {})
    /\ lastResp = NoResp
    /\ listed = {}

ControllerConstructed ==
    /\ cfgs = [k \in Clients |-> Cfg(UpstreamNames[k], None, None)]
    /\ ControllerFields

(***************************************************************************)
(* _FallbackUpstreamClient (client.py:26-119): one session.  asyncio runs  *)
(* one coroutine at a time, so the code between two awaits is one step.    *)
(***************************************************************************)
Calls == 1..NumCalls

\* a JSON-RPC reply frame; re is the index of the request frame it answers;
\* kind: "sent" (on the pipe), "read" (the reader has read it), "resent" (a second
\* copy is on the pipe), "reread"; in a delivered result, the key it carries
Msg(id, kind, re) == [id |-> id, kind |-> kind, re |-> re]
NoMsg == Msg(0, "none", 0)

\* a request frame on the wire, tagged with the call and attempt that wrote it
Frame(id, c, att) == [id |-> id, call |-> c, att |-> att]

\* the future of attempt att of call c
Fut(c, att) == [call |-> c, att |-> att]

\* local variables of a send_request coroutine
\*   pc: "idle" (not called), "waiting" (in wait_for), "expired" (the timeout has
\*       cancelled the future, the except block has not run yet), "backoff"
\*       (asyncio.sleep), "returned", "timed_out" (TimeoutError raised),
\*       "write_failed" (drain raised)
\*   fut: the state of the current attempt's future
CallState(pc, req_id, attempt, retries, fut, ret) ==
    [pc |-> pc, req_id |-> req_id, attempt |-> attempt, retries |-> retries,
     fut |-> fut, ret |-> ret]
IdleCall == CallState("idle", 0, 0, 0, "none", NoMsg)

\* mutant: the waiter is not registered
DictSet_Skip(d, key, v) == d

\* dict assignment and dict.pop(key, None)
DictSet(d, key, v) == [x \in DOMAIN d \cup {key} |-> IF x = key THEN v ELSE d[x]]
DictPop(d, key) == [x \in DOMAIN d \ {key} |-> d[x]]
EmptyDict == [x \in {} |-> 0]

\* mutant: the reader sets the result without asking fut.done()
FutDone_Never(h) == FALSE

\* client.py:118   fut.done() of the future registered as h
FutDone(h) == ~(call[h.call].attempt = h.att /\ call[h.call].fut = "pending")

\* mutant: the counter is read but not advanced
AfterAlloc_Stuck(n) == n

\* client.py:63   self._next_id += 1
AfterAlloc(n) == n + 1

\* client.py:31-38
SessionConstructed ==
    /\ next_id = 1
    /\ pending = EmptyDict
    /\ closed = FALSE
    /\ reader = "none"
    /\ call = [c \in Calls |-> IdleCall]
    /\ wire = <<>>
    /\ replies = <<>>
    /\ proc = [eof |-> FALSE, stdin |-> TRUE]

\* client.py:40-42   start(): create the reader task once.  UpstreamClient
\* constructs the session and starts it in one step (client.py:175-176), so
\* send_request and close only ever meet a started session.
Start ==
    /\ reader = "none"
    /\ reader' = "running"
    /\ UNCHANGED <<next_id, pending, closed, call, wire, replies, proc>>
    /\ UNCHANGED <<ctlVars, lifeVars, srvVars, outVars, decVars, bldVars>>

\* client.py:71-75   one attempt: register the waiter, write, drain
\* (drain raises when the proc's stdin is gone)
Attempt(c, id, att, retries) ==
    /\ Len(wire) < MaxFrames
    /\ pending' = DictSet(pending, id, Fut(c, att))
    /\ IF proc.stdin
       THEN /\ wire' = Append(wire, Frame(id, c, att))
            /\ replies' = Append(replies, NoMsg)
            /\ call' = [call EXCEPT ![c] =
                          CallState("waiting", id, att, retries, "pending", NoMsg)]
       ELSE /\ call' = [call EXCEPT ![c] =
                          CallState("write_failed", id, att, retries, "pending", NoMsg)]
            /\ UNCHANGED <<wire, replies>>

\* client.py:62-79   send_request up to its first await on the future
SendRequest(c, retries) ==
    /\ reader # "none"
    /\ call[c].pc = "idle"
    /\ \A d \in Calls : d < c => call[d].pc # "idle"
    /\ next_id' = AfterAlloc(next_id)
    /\ Attempt(c, next_id, 0, retries)
    /\ UNCHANGED <<closed, reader, proc>>
    /\ UNCHANGED <<ctlVars, lifeVars, srvVars, outVars, decVars, bldVars>>

\* the upstream answers request frame i (in any order, at any time before EOF)
\* with a frame carrying that request's id
UpstreamReply(i) ==
    /\ i \in DOMAIN wire
    /\ replies[i] = NoMsg
    /\ ~proc.eof
    /\ replies' = [replies EXCEPT ![i] = Msg(wire[i].id, "sent", i)]
    /\ UNCHANGED <<next_id, pending, closed, reader, call, wire, proc>>
    /\ UNCHANGED <<ctlVars, lifeVars, srvVars, outVars, decVars, bldVars>>

\* the upstream sends its reply to request frame i a second time
UpstreamDuplicate(i) ==
    /\ i \in DOMAIN replies
    /\ replies[i].kind = "read"
    /\ ~proc.eof
    /\ replies' = [replies EXCEPT ![i] = Msg(replies[i].id, "resent", i)]
    /\ UNCHANGED <<next_id, pending, closed, reader, call, wire, proc>>
    /\ UNCHANGED <<ctlVars, lifeVars, srvVars, outVars, decVars, bldVars>>

\* mutant: the reader completes whatever future is registered first
Lookup_Any(d, key) == IF DOMAIN d = {} THEN {} ELSE {CHOOSE x \in DOMAIN d : TRUE}

\* client.py:116-117   the keys self._pending.pop(req_id, None) finds
Lookup(d, key) == IF key \in DOMAIN d THEN {key} ELSE {}

\* client.py:99-119   the reader task reads one frame and dispatches it;
\* kind: the key the decoded body carries beside its id, "result" or "error"
ReaderDeliver(i, kind) ==
    /\ reader = "running"
    /\ i \in DOMAIN replies
    /\ replies[i].kind \in {"sent", "resent"}
    /\ replies' = [replies EXCEPT ![i] =
                      Msg(replies[i].id, IF replies[i].kind = "sent" THEN "read" ELSE "reread", i)]
    /\ LET found == Lookup(pending, replies[i].id) IN
       IF found = {}
       THEN UNCHANGED <<pending, call>>
       ELSE LET key == CHOOSE x \in found : TRUE
                h == pending[key]
            IN /\ pending' = DictPop(pending, key)
               /\ call' = IF FutDone(h) THEN call
                          ELSE [call EXCEPT ![h.call].fut = "result",
                                            ![h.call].ret = Msg(replies[i].id, kind, i)]
    /\ UNCHANGED <<next_id, closed, reader, wire, proc>>
    /\ UNCHANGED <<ctlVars, lifeVars, srvVars, outVars, decVars, bldVars>>

\* client.py:78   wait_for returns the future's result
Return(c) ==
    /\ call[c].pc = "waiting"
    /\ call[c].fut = "result"
    /\ call' = [call EXCEPT ![c].pc = "returned"]
    /\ UNCHANGED <<next_id, pending, closed, reader, wire, replies, proc>>
    /\ UNCHANGED <<ctlVars, lifeVars, srvVars, outVars, decVars, bldVars>>

\* client.py:78   the timeout of wait_for passes: the future is cancelled
Timeout(c) ==
    /\ call[c].pc = "waiting"
    /\ call[c].fut = "pending"
    /\ call' = [call EXCEPT ![c].pc = "expired", ![c].fut = "cancelled"]
    /\ UNCHANGED <<next_id, pending, closed, reader, wire, replies, proc>>
    /\ UNCHANGED <<ctlVars, lifeVars, srvVars, outVars, decVars, bldVars>>

\* mutant: one attempt more than retries allows
RetriesExhausted_OneMore(attempt, retries) == attempt > retries + 1

\* client.py:90   if attempt > retries: raise
RetriesExhausted(attempt, retries) == attempt > retries

\* client.py:80-92   except TimeoutError: count, clean up, raise or back off
HandleTimeout(c) ==
    /\ call[c].pc = "expired"
    /\ pending' = DictPop(pending, call[c].req_id)
    /\ call' = [call EXCEPT ![c].attempt = @ + 1,
                            ![c].pc = IF RetriesExhausted(call[c].attempt + 1, call[c].retries)
                                      THEN "timed_out" ELSE "backoff"]
    /\ UNCHANGED <<next_id, closed, reader, wire, replies, proc>>
    /\ UNCHANGED <<ctlVars, lifeVars, srvVars, outVars, decVars, bldVars>>

\* client.py:70-75   after the sleep, the loop's next attempt with req_id as it is
Retry(c) ==
    /\ call[c].pc = "backoff"
    /\ Attempt(c, call[c].req_id, call[c].attempt, call[c].retries)
    /\ UNCHANGED <<next_id, closed, reader, proc>>
    /\ UNCHANGED <<ctlVars, lifeVars, srvVars, outVars, decVars, bldVars>>

\* client.py:44-49   close(): set the flag, cancel the reader task and await it
Close ==
    /\ reader # "none"
    /\ ~closed
    /\ closed' = TRUE
    /\ reader' = IF reader = "running" THEN "cancelled" ELSE reader
    /\ UNCHANGED <<next_id, pending, call, wire, replies, proc>>
    /\ UNCHANGED <<ctlVars, lifeVars, srvVars, outVars, decVars, bldVars>>

\* the upstream closes its stdout; with stdinGone its stdin too (it exited)
UpstreamEOF(stdinGone) ==
    /\ ~proc.eof
    /\ proc' = [eof |-> TRUE, stdin |-> ~stdinGone]
    /\ UNCHANGED <<next_id, pending, closed, reader, call, wire, replies>>
    /\ UNCHANGED <<ctlVars, lifeVars, srvVars, outVars, decVars, bldVars>>

\* client.py:99-101   readline returns b"" once the buffered frames are read
ReaderEOF ==
    /\ reader = "running"
    /\ proc.eof
    /\ \A i \in DOMAIN replies : replies[i].kind \notin {"sent", "resent"}
    /\ reader' = "eof"
    /\ UNCHANGED <<next_id, pending, closed, call, wire, replies, proc>>
    /\ UNCHANGED <<ctlVars, lifeVars, srvVars, outVars, decVars, bldVars>>

(***************************************************************************)
(* Lazy start, initialize_capabilities and aclose (controller.py:44-61,    *)
(* 248-249) with the clients' start and close (client.py:139-181), as      *)
(* coroutines that interleave at their awaits.                             *)
(***************************************************************************)
Tasks == 1..NumTasks

SubMaps == {"tools", "prompts", "resources"}
NoCaps == [m \in SubMaps |-> EmptyDict]

\* the capabilities upstream k announces: both announce the tool "t"
UpCaps(k) ==
    [m \in SubMaps |->
        CASE m = "tools" -> [x \in (IF k = 1 THEN {"t", "u"} ELSE {"t"}) |-> k]
          [] m = "prompts" -> [x \in (IF k = 1 THEN {"p"} ELSE {}) |-> k]
          [] OTHER -> [x \in (IF k = 1 THEN {} ELSE {"r"}) |-> k]]

\* what initialize returned on client k: a reply with "result", or one with
\* "error" (merge.py:12-16 then finds no capabilities in it)
InitReply(k, outcome) == IF outcome = "result" THEN UpCaps(k) ELSE NoCaps

\* dict.update
DictUpdate(target, v) ==
    [x \in DOMAIN target \cup DOMAIN v |-> IF x \in DOMAIN v THEN v[x] ELSE target[x]]
DictKeep(target, v) ==
    [x \in DOMAIN target \cup DOMAIN v |-> IF x \in DOMAIN target THEN target[x] ELSE v[x]]

\* mutant: the first writer of a key wins
RECURSIVE merge_capabilities_FirstWins(_)
merge_capabilities_FirstWins(results) ==
    IF results = <<>> THEN NoCaps
    ELSE LET rest == merge_capabilities_FirstWins(SubSeq(results, 1, Len(results) - 1))
         IN [m \in SubMaps |-> DictKeep(rest[m], results[Len(results)][m])]

\* merge.py:7-23   target.update(v) for each result in order
RECURSIVE merge_capabilities(_)
merge_capabilities(results) ==
    IF results = <<>> THEN NoCaps
    ELSE LET rest == merge_capabilities(SubSeq(results, 1, Len(results) - 1))
         IN [m \in SubMaps |-> DictUpdate(rest[m], results[Len(results)][m])]

\* a coroutine: op is the controller method it calls,
\*   pc: "idle", "starting" (awaiting the gather of _ensure_started), "ready"
\*       (_ensure_started has returned), "raised", "closing" (awaiting the
\*       gather of aclose), "done"
\*   asked: the clients whose initialize() it has called; outcomes: how each
\*   ended; ret: what initialize_capabilities returned
TaskState(op, pc, asked, outcomes, ret) ==
    [op |-> op, pc |-> pc, asked |-> asked, outcomes |-> outcomes, ret |-> ret]
NoOutcomes == [k \in Clients |-> "none"]
IdleTask == TaskState("none", "idle", {}, NoOutcomes, NoCaps)

NoTasks ==
    /\ task = [t \in Tasks |-> IdleTask]
    /\ startCalls = [k \in Clients |-> 0]
    /\ sessions = [k \in Clients |-> <<>>]

\* controller.py:45   initialize_capabilities or route_request enters
\* _ensure_started and reads self._started
Call(t, op) ==
    /\ task[t].pc = "idle"
    /\ \A u \in Tasks : u < t => task[u].pc # "idle"
    /\ task' = [task EXCEPT ![t] =
                  TaskState(op, IF started THEN "ready" ELSE "starting", {},
                            NoOutcomes, NoCaps)]
    /\ UNCHANGED <<startCalls, sessions>>
    /\ UNCHANGED <<ctlVars, sessVars, srvVars, outVars, decVars, bldVars>>

\* controller.py:46-47 with client.py:139-176   the gather runs start() of every
\* client; a start() that succeeds creates a session with its reader task and
\* makes it the client's current one; fail: the clients whose start() raises.
\* If none raises, _started is set.
StartSessions(t, fail) ==
    /\ task[t].pc = "starting"
    /\ startCalls' = [k \in Clients |-> startCalls[k] + 1]
    /\ sessions' = [k \in Clients |->
                      IF k \in fail THEN sessions[k] ELSE Append(sessions[k], "running")]
    /\ started' = (started \/ fail = {})
    /\ task' = [task EXCEPT ![t].pc = IF fail = {} THEN "ready" ELSE "raised"]
    /\ UNCHANGED <<cfgs, legacy, env, upTools, rr, catalog, lastReq, sent, replied,
                   lastResp, listed>>
    /\ UNCHANGED <<sessVars, srvVars, outVars, decVars, bldVars>>

\* controller.py:52-61   initialize on every client, exceptions kept as results
\* and skipped; outcomes[k]: "result", "error" (an error reply) or "raise"
InitializeCapabilities(t, outcomes) ==
    LET oks == OkLists(1, { k \in Clients : outcomes[k] # "raise" }) IN
    /\ task[t].pc = "ready"
    /\ task[t].op = "initialize_capabilities"
    /\ task' = [task EXCEPT ![t] =
                  TaskState(task[t].op, "done", Clients, outcomes,
                            merge_capabilities(
                                [i \in DOMAIN oks |-> InitReply(oks[i], outcomes[oks[i]])]))]
    /\ UNCHANGED <<startCalls, sessions>>
    /\ UNCHANGED <<ctlVars, sessVars, srvVars, outVars, decVars, bldVars>>

\* controller.py:249 with client.py:178-181, 44-47   aclose: close() of every
\* client cancels the reader task of the client's current session
AcloseBegin(t) ==
    /\ task[t].pc = "idle"
    /\ \A u \in Tasks : u < t => task[u].pc # "idle"
    /\ task' = [task EXCEPT ![t] = TaskState("aclose", "closing", {}, NoOutcomes, NoCaps)]
    /\ sessions' = [k \in Clients |->
                      [i \in DOMAIN sessions[k] |->
                          IF i = Len(sessions[k]) THEN "cancelled" ELSE sessions[k][i]]]
    /\ UNCHANGED startCalls
    /\ UNCHANGED <<ctlVars, sessVars, srvVars, outVars, decVars, bldVars>>

\* client.py:48-49, controller.py:249   the cancelled readers have ended; the
\* gather and aclose return
AcloseReturn(t) ==
    /\ task[t].pc = "closing"
    /\ task' = [task EXCEPT ![t].pc = "done"]
    /\ UNCHANGED <<startCalls, sessions>>
    /\ UNCHANGED <<ctlVars, sessVars, srvVars, outVars, decVars, bldVars>>

(***************************************************************************)
(* MCPAggregatorServer.start_stdio (server.py:50-110) reading the client's *)
(* frames through StdioJsonRpcFramer (transport/stdio.py:26-64).           *)
(***************************************************************************)
\* the n-th frame the client sends: its body is a JSON object with a method,
\* with the id n or (id 0) without an id, or it is not valid JSON
Message(n, method, hasId, json) ==
    [n |-> n, method |-> method, id |-> IF hasId THEN n ELSE 0, json |-> json]
NoMessage == Message(0, "", FALSE, TRUE)
MessageKinds(n) ==
    { Message(n, m, h, TRUE) : m \in {"initialize", "tools/call"}, h \in BOOLEAN }
    \cup { Message(n, "", FALSE, FALSE) }

\* one entry of the log: a controller call made for message n with what it
\* did (kind, caps), or a response frame written with id n
Event(ev, n, method, kind, caps, code) ==
    [ev |-> ev, n |-> n, method |-> method, kind |-> kind, caps |-> caps, code |-> code]

\* server.py:35-39   the capabilities served when there is nothing to merge
InitialCaps == NoCaps

\* what initialize_capabilities may return
CapsChoices == { merge_capabilities(<<UpCaps(1)>>), merge_capabilities(<<UpCaps(1), UpCaps(2)>>) }

Profiles == {"none", "cursor", "windsurf"}

\* mutant: every named profile shapes the capabilities
ShapeCaps_AnyProfile(profile, caps) ==
    IF profile # "none"
    THEN [m \in SubMaps |-> IF m = "tools" THEN caps[m] ELSE EmptyDict]
    ELSE caps

\* server.py:72-74   client profile shaping
ShapeCaps(profile, caps) ==
    IF profile = "cursor"
    THEN [m \in SubMaps |-> IF m = "tools" THEN caps[m] ELSE EmptyDict]
    ELSE caps

\* mutant: a response is written for a message without an id too
Responds_Always(m) == TRUE

\* server.py:79, 91   if msg_id is not None
Responds(m) == m.id # 0

\* server.py:64, 85   whether the controller is called for message m
CallsController(m) ==
    IF m.method = "initialize" THEN srv.controller ELSE srv.controller /\ m.id # 0

\* mutant: what is emitted comes out ahead of what was emitted before
Emit_Ahead(lg, events) == events \o lg

\* server.py:44-48, 86   the calls made and the frames written, in the order
\* in which the coroutine makes them
Emit(lg, events) == lg \o events

\* the start_stdio coroutine
\*   pc: "reading" (in iter_messages, awaiting the blocking read), "handling"
\*       (a message has been read), "check" (the message is handled, the
\*       shutdown flag is tested next), "draining" (after the loop, awaiting
\*       the shutdown event), "returned", "crashed" (an exception left
\*       start_stdio)
\*   controller: whether the server was given a controller
\*   msg: the message being handled; caps: the capabilities before shaping;
\*   profile: ORCH_CLIENT_PROFILE as last read
ServerState(pc, controller, msg, caps, profile) ==
    [pc |-> pc, controller |-> controller, msg |-> msg, caps |-> caps, profile |-> profile]

\* server.py:27-42 and the call of start_stdio; nothing is on stdin yet
ServerConstructed ==
    /\ stdin = [frames |-> <<>>, pos |-> 0, closed |-> FALSE]
    /\ srv = ServerState("reading", TRUE, NoMessage, InitialCaps, "none")
    /\ shutdown_event = FALSE
    /\ log = <<>>

\* the client writes its next frame
ClientSend(m) ==
    /\ ~stdin.closed
    /\ Len(stdin.frames) < MaxMsgs
    /\ m \in MessageKinds(Len(stdin.frames) + 1)
    /\ stdin' = [stdin EXCEPT !.frames = Append(@, m)]
    /\ UNCHANGED <<srv, shutdown_event, log>>
    /\ UNCHANGED <<ctlVars, sessVars, lifeVars, outVars, decVars, bldVars>>

\* the client closes its end
ClientClose ==
    /\ ~stdin.closed
    /\ stdin' = [stdin EXCEPT !.closed = TRUE]
    /\ UNCHANGED <<srv, shutdown_event, log>>
    /\ UNCHANGED <<ctlVars, sessVars, lifeVars, outVars, decVars, bldVars>>

\* stdio.py:27-64, server.py:56   the blocking read returns: a message, None at
\* EOF (the loop ends), or json.loads raises on the body and the exception
\* leaves iter_messages and start_stdio
Read ==
    /\ srv.pc = "reading"
    /\ IF stdin.pos < Len(stdin.frames)
       THEN LET m == stdin.frames[stdin.pos + 1] IN
            /\ stdin' = [stdin EXCEPT !.pos = @ + 1]
            /\ srv' = IF m.json
                      THEN [srv EXCEPT !.pc = "handling", !.msg = m]
                      ELSE [srv EXCEPT !.pc = "crashed"]
       ELSE /\ stdin.closed
            /\ srv' = [srv EXCEPT !.pc = "draining"]
            /\ UNCHANGED stdin
    /\ UNCHANGED <<shutdown_event, log>>
    /\ UNCHANGED <<ctlVars, sessVars, lifeVars, outVars, decVars, bldVars>>

\* server.py:57-101   one message is handled
\*   outcome: what the controller call did: "result", "error" (route_request
\*            returned an error), "raise"
\*   ret: the capabilities initialize_capabilities returned
\*   profile: ORCH_CLIENT_PROFILE
Handle(outcome, ret, profile) ==
    LET m == srv.msg
        isInit == m.method = "initialize"
        calls == CallsController(m)
        merged == IF isInit /\ calls /\ outcome = "result" THEN ret ELSE InitialCaps
        called == IF calls
                THEN <<Event("call", m.n, m.method, outcome,
                             IF isInit THEN merged ELSE NoCaps, 0)>>
                ELSE <<>>
        response ==
            IF isInit
            THEN Event("write", m.id, "", "result", ShapeCaps(profile, merged), 0)
            ELSE IF calls /\ outcome = "result"
            THEN Event("write", m.id, "", "result", NoCaps, 0)
            ELSE Event("write", m.id, "", "error", NoCaps,
                       IF ~calls THEN -32601
                       ELSE IF outcome = "raise" THEN -32002 ELSE -32001)
    IN
    /\ srv.pc = "handling"
    /\ ~calls => outcome = "result"
    /\ ~(isInit /\ calls /\ outcome = "result") => ret = InitialCaps
    /\ isInit => outcome # "error"
    /\ ~isInit => profile = srv.profile
    /\ log' = Emit(log, called \o (IF Responds(m) THEN <<response>> ELSE <<>>))
    /\ srv' = [srv EXCEPT !.pc = "check",
                          !.caps = IF isInit THEN merged ELSE @,
                          !.profile = profile]
    /\ UNCHANGED <<stdin, shutdown_event>>
    /\ UNCHANGED <<ctlVars, sessVars, lifeVars, outVars, decVars, bldVars>>

\* mutant: the flag is not tested after a message
Check_Ignore ==
    /\ srv.pc = "check"
    /\ srv' = [srv EXCEPT !.pc = "reading"]
    /\ UNCHANGED <<stdin, shutdown_event, log>>
    /\ UNCHANGED <<ctlVars, sessVars, lifeVars, outVars, decVars, bldVars>>

\* server.py:103-104   if self._shutdown_event.is_set(): break
Check ==
    /\ srv.pc = "check"
    /\ srv' = [srv EXCEPT !.pc = IF shutdown_event THEN "draining" ELSE "reading"]
    /\ UNCHANGED <<stdin, shutdown_event, log>>
    /\ UNCHANGED <<ctlVars, sessVars, lifeVars, outVars, decVars, bldVars>>

\* server.py:107   await self._shutdown_event.wait(), then start_stdio returns
Drain ==
    /\ srv.pc = "draining"
    /\ shutdown_event
    /\ srv' = [srv EXCEPT !.pc = "returned"]
    /\ UNCHANGED <<stdin, shutdown_event, log>>
    /\ UNCHANGED <<ctlVars, sessVars, lifeVars, outVars, decVars, bldVars>>

\* server.py:109-110   request_shutdown(), called from outside the loop
RequestShutdown ==
    /\ ~shutdown_event
    /\ srv.pc \notin {"returned", "crashed"}
    /\ shutdown_event' = TRUE
    /\ UNCHANGED <<stdin, srv, log>>
    /\ UNCHANGED <<ctlVars, sessVars, lifeVars, outVars, decVars, bldVars>>

(***************************************************************************)
(* StdoutGuard (utils/stdout_guard.py:9-33), a context manager around      *)
(* sys.stdout.                                                             *)
(***************************************************************************)
Guards == 1..NumGuards

\* what sys.stdout may be bound to: sys.__stdout__, or an object that some
\* caller put in its place (a capture buffer)
Streams == {"real", "capture"}

\* a guard object
\*   pc: "none" (not constructed), "constructed", "entered", "exited"
\*   orig: self._orig_stdout
\*   before: what sys.stdout was bound to when the scope was entered
\*   depth: how deeply nested the scope is (with statements nest: the scope
\*          entered last is left first)
GuardState(pc, orig, before, depth) ==
    [pc |-> pc, orig |-> orig, before |-> before, depth |-> depth]

NoGuard == GuardState("none", "real", "real", 0)

NoGuards ==
    /\ sys_stdout = "real"
    /\ guards = [g \in Guards |-> NoGuard]

\* the number of scopes entered and not left
Depth == Cardinality({ g \in Guards : guards[g].pc = "entered" })

\* stdout_guard.py:17-25   __init__
GuardInit(g) ==
    /\ guards[g].pc = "none"
    /\ \A h \in Guards : h < g => guards[h].pc # "none"
    /\ guards' = [guards EXCEPT ![g] = GuardState("constructed", sys_stdout, "real", 0)]
    /\ UNCHANGED sys_stdout
    /\ UNCHANGED <<ctlVars, sessVars, lifeVars, srvVars, decVars, bldVars>>

\* stdout_guard.py:27-29   __enter__ (a guard that was left may be entered again)
GuardEnter(g) ==
    /\ guards[g].pc \in {"constructed", "exited"}
    /\ sys_stdout' = "real"
    /\ guards' = [guards EXCEPT ![g].pc = "entered", ![g].before = sys_stdout,
                                ![g].depth = Depth + 1]
    /\ UNCHANGED <<ctlVars, sessVars, lifeVars, srvVars, decVars, bldVars>>

\* stdout_guard.py:31-33   __exit__ of the innermost scope
GuardExit(g) ==
    /\ guards[g].pc = "entered"
    /\ guards[g].depth = Depth
    /\ sys_stdout' = guards[g].orig
    /\ guards' = [guards EXCEPT ![g].pc = "exited", ![g].depth = 0]
    /\ UNCHANGED <<ctlVars, sessVars, lifeVars, srvVars, decVars, bldVars>>

(***************************************************************************)
(* The two decoders of Content-Length frames: the downstream framer        *)
(* (transport/stdio.py:26-64) and the session's reader (client.py:95-119). *)
(* A stream is a sequence of cells, one per byte that the decoders tell     *)
(* apart: the header name stands for one cell ("C": Content-Length:, "c":  *)
(* content-length:, "X": another header's text), "num" is the digits.      *)
(***************************************************************************)
Cell(t, v) == [t |-> t, v |-> v]
CR == Cell("cr", 0)
NL == Cell("nl", 0)

\* stdio.py:22-24   the body of message m (2 cells) and the lines of a frame
BodyOf(m) == <<Cell("open", m), Cell("close", m)>>
ContentLength(tag, m) == <<Cell(tag, 0), Cell("num", Len(BodyOf(m))), CR, NL>>
OtherHeader == <<Cell("X", 0), CR, NL>>
BlankLine == <<CR, NL>>

\* the header blocks a frame may arrive with
Layouts == {"plain", "lower", "before", "after", "around"}
HeaderBlock(layout, m) ==
    CASE layout = "plain" -> ContentLength("C", m)
      [] layout = "lower" -> ContentLength("c", m)
      [] layout = "before" -> OtherHeader \o ContentLength("C", m)
      [] layout = "after" -> ContentLength("C", m) \o OtherHeader
      [] OTHER -> OtherHeader \o ContentLength("C", m) \o OtherHeader

FrameBytes(layout, m) == HeaderBlock(layout, m) \o BlankLine \o BodyOf(m)

RECURSIVE StreamOf(_, _)
StreamOf(layouts, m) ==
    IF m > Len(layouts) THEN <<>>
    ELSE FrameBytes(layouts[m], m) \o StreamOf(layouts, m + 1)

\* readline(): the bytes from p up to and including the next newline, or up
\* to the end of the stream
RECURSIVE LineEnd(_, _)
LineEnd(s, p) ==
    IF p > Len(s) THEN Len(s)
    ELSE IF s[p].t = "nl" THEN p
    ELSE LineEnd(s, p + 1)
ReadLine(s, p) ==
    [line |-> SubSeq(s, p, LineEnd(s, p)), next |-> LineEnd(s, p) + 1]

\* read(n): n bytes, fewer at the end of the stream
ReadBytes(s, p, n) ==
    LET e == IF p + n - 1 > Len(s) THEN Len(s) ELSE p + n - 1 IN
    [bytes |-> SubSeq(s, p, e), next |-> e + 1]

\* stdio.py:34, 43; client.py:102   line.lower().startswith(b"content-length:")
IsContentLength(line) == Len(line) > 0 /\ line[1].t \in {"C", "c"}

\* stdio.py:40, client.py:104   line in (b"\r\n", b"\n", b"")
EndsHeaders(line) == line \in {<<CR, NL>>, <<NL>>, <<>>}

\* stdio.py:44, 48; client.py:107   int(line.split(b":")[1].strip())
LengthOf(line) == line[2].v

\* json.loads(body): the message, or no value when it raises
JsonLoads(body) ==
    IF Len(body) = 2 /\ body[1].t = "open" /\ body[2] = Cell("close", body[1].v)
    THEN Some(body[1].v) ELSE None

\* stdio.py:36-46   skip the headers up to the blank line, keeping the length
\* of a Content-Length line met on the way
RECURSIVE SkipHeaders(_, _, _)
SkipHeaders(s, p, length) ==
    LET r == ReadLine(s, p) IN
    IF EndsHeaders(r.line) THEN [length |-> length, next |-> r.next]
    ELSE SkipHeaders(s, r.next,
                     IF IsContentLength(r.line) THEN Some(LengthOf(r.line)) ELSE length)

\* what one read did: "msg" (a message v), "none" (None), "raise", "skip"
\* (the reader's continue)
ReadResult(kind, v, next) == [kind |-> kind, v |-> v, next |-> next]

\* stdio.py:26-57   StdioJsonRpcFramer._read_message_blocking from position p
ReadMessageBlocking(s, p) ==
    LET h == ReadLine(s, p) IN
    IF h.line = <<>> THEN ReadResult("none", 0, h.next)
    ELSE LET hd == IF IsContentLength(h.line)
                   THEN [length |-> Some(LengthOf(h.line)), next |-> ReadLine(s, h.next).next]
                   ELSE SkipHeaders(s, h.next, None)
         IN IF IsNone(hd.length) THEN ReadResult("none", 0, hd.next)
            ELSE LET b == ReadBytes(s, hd.next, ValueOf(hd.length)) IN
                 IF b.bytes = <<>> THEN ReadResult("none", 0, b.next)
                 ELSE IF IsNone(JsonLoads(b.bytes)) THEN ReadResult("raise", 0, b.next)
                 ELSE ReadResult("msg", ValueOf(JsonLoads(b.bytes)), b.next)

\* client.py:103-105   skip lines until a blank one
RECURSIVE SkipUntilBlank(_, _, _)
SkipUntilBlank(s, line, p) ==
    IF EndsHeaders(line) THEN p
    ELSE SkipUntilBlank(s, ReadLine(s, p).line, ReadLine(s, p).next)

\* client.py:97-119   one iteration of _FallbackUpstreamClient._read_loop
\* (readexactly raises when the stream ends before the body does)
ReadLoopIteration(s, p) ==
    LET h == ReadLine(s, p) IN
    IF h.line = <<>> THEN ReadResult("none", 0, h.next)
    ELSE IF ~IsContentLength(h.line)
    THEN ReadResult("skip", 0, SkipUntilBlank(s, h.line, h.next))
    ELSE LET q == ReadLine(s, h.next).next
             b == ReadBytes(s, q, LengthOf(h.line))
         IN IF Len(b.bytes) < LengthOf(h.line) THEN ReadResult("raise", 0, b.next)
            ELSE IF IsNone(JsonLoads(b.bytes)) THEN ReadResult("skip", 0, b.next)
            ELSE ReadResult("msg", ValueOf(JsonLoads(b.bytes)), b.next)

\* a decoder: pc "running", "eof" (it met the end of the stream and stopped),
\* "raised"; pos: the next byte to read; msgs: the messages decoded so far
DecState(pc, pos, msgs) == [pc |-> pc, pos |-> pos, msgs |-> msgs]

NoStream ==
    /\ stream = <<>>
    /\ dec = [d \in {"framer", "reader"} |-> DecState("running", 1, <<>>)]

AfterRead(d, r) ==
    [dec EXCEPT ![d] =
        DecState(CASE r.kind = "none" -> "eof" [] r.kind = "raise" -> "raised" [] OTHER -> "running",
                 r.next,
                 IF r.kind = "msg" THEN Append(dec[d].msgs, r.v) ELSE dec[d].msgs)]

\* stdio.py:59-64   iter_messages reads the next message
FramerRead ==
    /\ dec.framer.pc = "running"
    /\ dec' = AfterRead("framer", ReadMessageBlocking(stream, dec.framer.pos))
    /\ UNCHANGED stream
    /\ UNCHANGED <<ctlVars, sessVars, lifeVars, srvVars, outVars, bldVars>>

\* client.py:97-119   the reader task runs one iteration of its loop
ReaderRead ==
    /\ dec.reader.pc = "running"
    /\ dec' = AfterRead("reader", ReadLoopIteration(stream, dec.reader.pos))
    /\ UNCHANGED stream
    /\ UNCHANGED <<ctlVars, sessVars, lifeVars, srvVars, outVars, bldVars>>

(***************************************************************************)
(* _build_catalog as a coroutine (controller.py:123-200): it suspends at   *)
(* each of its three gathers, and other requests run meanwhile.            *)
(***************************************************************************)
Builders == 1..NumBuilds
Sections == {"tools", "prompts", "resources"}

\* controller.py:125   cat = Catalog(), the local being filled
LocalCatalog(tools, filled) == [tools |-> tools, filled |-> filled]

\* a request
\*   op: "tools/list" or "tools/call"
\*   pc: "idle", "tools" / "prompts" / "resources" (suspended at that gather),
\*       "done", "raised"
\*   local: cat;  seen: self._catalog as a tools/call read it at
\*   controller.py:99-101
BuildState(op, pc, local, seen) == [op |-> op, pc |-> pc, local |-> local, seen |-> seen]
IdleBuild == BuildState("", "idle", LocalCatalog(<<>>, {}), NoCatalog)

NoBuilds == builds = [t \in Builders |-> IdleBuild]

\* mutant: self._catalog is assigned when the local is created and filled in place
AssignedCatalog_Early(current, local) == [built |-> TRUE, tools |-> local.tools]

\* controller.py:199   self._catalog = cat, after the last section is filled
AssignedCatalog(current, local) ==
    IF local.filled = Sections THEN [built |-> TRUE, tools |-> local.tools] ELSE current

\* controller.py:89-91, 94-101   a discovery request starts a build; a
\* tools/call starts one when there is no catalog and reads the catalog
\* otherwise
BuildBegin(t, op) ==
    /\ builds[t].pc = "idle"
    /\ \A u \in Builders : u < t => builds[u].pc # "idle"
    /\ builds' = [builds EXCEPT ![t] =
                    IF op = "tools/call" /\ catalog.built
                    THEN BuildState(op, "done", LocalCatalog(<<>>, {}), catalog)
                    ELSE BuildState(op, "tools", LocalCatalog(<<>>, {}), NoCatalog)]
    /\ UNCHANGED <<ctlVars, sessVars, lifeVars, srvVars, outVars, decVars>>

\* one gather of the build returns and its section is filled, or filling it
\* raises (an item that is not a map)
\*   controller.py:127-164 (tools; ok: the clients that answered),
\*   166-181 (prompts), 183-200 (resources, the assignment and the return)
SectionListed(t, section, ok, raises) ==
    LET after == CASE section = "tools" -> "prompts"
                   [] section = "prompts" -> "resources"
                   [] OTHER -> "done"
        local == LocalCatalog(IF section = "tools" THEN BuildFrom(<<>>, 1, ok)
                                                   ELSE builds[t].local.tools,
                              builds[t].local.filled \cup {section})
        assigned == IF raises THEN catalog ELSE AssignedCatalog(catalog, local)
    IN
    /\ builds[t].pc = section
    /\ section # "tools" => ok = {}
    /\ catalog' = assigned
    /\ builds' = [builds EXCEPT ![t] =
                    IF raises THEN BuildState(builds[t].op, "raised", builds[t].local, NoCatalog)
                    ELSE BuildState(builds[t].op, after, local,
                                    IF after = "done" /\ builds[t].op = "tools/call"
                                    THEN assigned ELSE NoCatalog)]
    /\ UNCHANGED <<cfgs, legacy, env, upTools, started, rr, lastReq, sent, replied,
                   lastResp, listed>>
    /\ UNCHANGED <<sessVars, lifeVars, srvVars, outVars, decVars>>

(***************************************************************************)
(* Specifications                                                          *)
(***************************************************************************)
InitController ==
    /\ ControllerConstructed
    /\ legacy \in BOOLEAN
    /\ upTools \in [Clients -> ToolLists]
    /\ SessionConstructed
    /\ NoTasks
    /\ NoGuards
    /\ NoStream
    /\ NoBuilds
    /\ ServerConstructed

NextController ==
    \/ \E method \in {"tools/list", "prompts/list"}, okBuild, okAgg \in SUBSET Clients :
          RouteDiscovery(method, okBuild, okAgg)
    \/ \E n \in CallNames, environ \in EnvChoices, outcome \in Outcomes,
          okBuild \in SUBSET Clients :
            RouteToolsCall(CallParams(n), environ, okBuild, outcome)
    \/ \E outcome \in Outcomes : RouteOther("ping", outcome)
    \/ ReturnToCaller

SpecController == InitController /\ [][NextController]_vars

\* a controller built from upstream server configurations that carry
\* include_tools / exclude_tools
InitCatalog ==
    /\ cfgs \in { [k \in Clients |-> Cfg(UpstreamNames[k], f[k].include, f[k].exclude)] :
                    f \in [Clients -> FilterChoices] }
    /\ ControllerFields
    /\ legacy = FALSE
    /\ upTools \in [Clients -> ToolLists]
    /\ SessionConstructed
    /\ NoTasks
    /\ NoGuards
    /\ NoStream
    /\ NoBuilds
    /\ ServerConstructed

NextCatalog ==
    \/ \E okBuild \in SUBSET Clients : RouteDiscovery("tools/list", okBuild, {})
    \/ \E n \in CallNames, okBuild \in SUBSET Clients, outcome \in {"result", "raise"} :
          RouteToolsCall(CallParams(n), NoEnv, okBuild, outcome)
    \/ ReturnToCaller

SpecCatalog == InitCatalog /\ [][NextCatalog]_vars

\* requests during which a send or a catalog build may raise
NextRouteFailure ==
    \/ \E okBuild, okAgg \in SUBSET Clients : RouteDiscovery("tools/list", okBuild, okAgg)
    \/ RouteDiscoveryRaises("tools/list")
    \/ \E n \in CallNames, okBuild \in SUBSET Clients, outcome \in Outcomes :
          RouteToolsCall(CallParams(n), NoEnv, okBuild, outcome)
    \/ \E outcome \in Outcomes : RouteOther("ping", outcome)
    \/ ReturnToCaller

SpecRouteFailure == InitController /\ [][NextRouteFailure]_vars

\* tools/call requests of every shape under the process-global filters
NextAllowList ==
    \/ \E n \in CallNames, environ \in EnvChoices, okBuild \in SUBSET Clients,
          outcome \in {"result", "raise"} :
            RouteToolsCall(CallParams(n), environ, okBuild, outcome)
    \/ \E params \in NamelessParams, environ \in EnvChoices, outcome \in {"result", "raise"} :
          RouteToolsCallNameless(params, environ, outcome)
    \/ ReturnToCaller

SpecAllowList == InitController /\ [][NextAllowList]_vars

\* guards constructed, entered and left in any order, in a process whose
\* sys.stdout is the real stdout or has been replaced
InitStdoutGuard ==
    /\ ControllerConstructed
    /\ legacy = FALSE
    /\ upTools = [k \in Clients |-> <<>>]
    /\ SessionConstructed
    /\ NoTasks
    /\ ServerConstructed
    /\ sys_stdout \in Streams
    /\ guards = [g \in Guards |-> NoGuard]
    /\ NoStream
    /\ NoBuilds

NextStdoutGuard ==
    \/ \E g \in Guards : GuardInit(g)
    \/ \E g \in Guards : GuardEnter(g)
    \/ \E g \in Guards : GuardExit(g)

SpecStdoutGuard == InitStdoutGuard /\ [][NextStdoutGuard]_vars

\* both decoders reading the same stream of NumFrames frames, each frame with
\* one of the header blocks
InitDecoders ==
    /\ ControllerConstructed
    /\ legacy = FALSE
    /\ upTools = [k \in Clients |-> <<>>]
    /\ SessionConstructed
    /\ NoTasks
    /\ ServerConstructed
    /\ NoGuards
    /\ stream \in { StreamOf(layouts, 1) : layouts \in [1..NumFrames -> Layouts] }
    /\ dec = [d \in {"framer", "reader"} |-> DecState("running", 1, <<>>)]
    /\ NoBuilds

NextDecoders ==
    \/ FramerRead
    \/ ReaderRead

SpecDecoders == InitDecoders /\ [][NextDecoders]_vars

\* concurrent requests (as the HTTP transport issues them) that build or read
\* the catalog; every upstream advertises one tool
InitBuild ==
    /\ ControllerConstructed
    /\ legacy = FALSE
    /\ upTools \in [Clients -> { s \in ToolLists : Len(s) = 1 }]
    /\ SessionConstructed
    /\ NoTasks
    /\ ServerConstructed
    /\ NoGuards
    /\ NoStream
    /\ builds = [t \in Builders |-> IdleBuild]

NextBuild ==
    \/ \E t \in Builders, op \in {"tools/list", "tools/call"} : BuildBegin(t, op)
    \/ \E t \in Builders, section \in Sections, ok \in SUBSET Clients, raises \in BOOLEAN :
          SectionListed(t, section, ok, raises)

SpecBuild == InitBuild /\ [][NextBuild]_vars

InitSession ==
    /\ SessionConstructed
    /\ ControllerConstructed
    /\ legacy = FALSE
    /\ upTools = [k \in Clients |-> <<>>]
    /\ NoTasks
    /\ NoGuards
    /\ NoStream
    /\ NoBuilds
    /\ ServerConstructed

\* concurrent calls, their timeouts and retries, on a live session
NextSession ==
    \/ Start
    \/ \E c \in Calls, retries \in 0..MaxRetries : SendRequest(c, retries)
    \/ \E i \in 1..MaxFrames : UpstreamReply(i)
    \/ \E i \in 1..MaxFrames, kind \in {"result", "error"} : ReaderDeliver(i, kind)
    \/ \E c \in Calls : Return(c)
    \/ \E c \in Calls : Timeout(c)
    \/ \E c \in Calls : HandleTimeout(c)
    \/ \E c \in Calls : Retry(c)

SpecSession == InitSession /\ [][NextSession]_vars

\* the calls the controller makes (retries=0, controller.py:112) on a session
\* that may be closed and whose upstream may repeat a reply or go away
NextSessionClose ==
    \/ Start
    \/ \E c \in Calls : SendRequest(c, 0)
    \/ \E i \in 1..MaxFrames : UpstreamReply(i)
    \/ \E i \in 1..MaxFrames : UpstreamDuplicate(i)
    \/ \E i \in 1..MaxFrames, kind \in {"result", "error"} : ReaderDeliver(i, kind)
    \/ \E c \in Calls : Return(c)
    \/ \E c \in Calls : Timeout(c)
    \/ \E c \in Calls : HandleTimeout(c)
    \/ Close
    \/ \E stdinGone \in BOOLEAN : UpstreamEOF(stdinGone)
    \/ ReaderEOF

SpecSessionClose == InitSession /\ [][NextSessionClose]_vars

\* coroutines that call initialize_capabilities, route_request and aclose
InitLifecycle ==
    /\ ControllerConstructed
    /\ legacy = TRUE
    /\ upTools = [k \in Clients |-> <<>>]
    /\ SessionConstructed
    /\ NoTasks
    /\ NoGuards
    /\ NoStream
    /\ NoBuilds
    /\ ServerConstructed

NextLifecycle ==
    \/ \E t \in Tasks, op \in {"initialize_capabilities", "route_request"} : Call(t, op)
    \/ \E t \in Tasks, fail \in SUBSET Clients : StartSessions(t, fail)
    \/ \E t \in Tasks, outcomes \in [Clients -> {"result", "error", "raise"}] :
          InitializeCapabilities(t, outcomes)
    \/ \E t \in Tasks : AcloseBegin(t)
    \/ \E t \in Tasks : AcloseReturn(t)

SpecLifecycle == InitLifecycle /\ [][NextLifecycle]_vars

\* the stdio server loop, its client and whoever requests shutdown
InitServer ==
    /\ ControllerConstructed
    /\ legacy = FALSE
    /\ upTools = [k \in Clients |-> <<>>]
    /\ SessionConstructed
    /\ NoTasks
    /\ NoGuards
    /\ NoStream
    /\ NoBuilds
    /\ stdin = [frames |-> <<>>, pos |-> 0, closed |-> FALSE]
    /\ srv \in { ServerState("reading", c, NoMessage, InitialCaps, "none") : c \in BOOLEAN }
    /\ shutdown_event = FALSE
    /\ log = <<>>

ServerStep ==
    \/ Read
    \/ \E outcome \in {"result", "error", "raise"}, ret \in CapsChoices \cup {InitialCaps},
          profile \in Profiles : Handle(outcome, ret, profile)
    \/ Check
    \/ Drain

NextServer ==
    \/ \E m \in MessageKinds(Len(stdin.frames) + 1) : ClientSend(m)
    \/ ClientClose
    \/ ServerStep
    \/ RequestShutdown

SpecServer == InitServer /\ [][NextServer]_vars

\* the event loop runs the server coroutine whenever it can take a step; the
\* client and the caller of request_shutdown are under no obligation
SpecServerLive == SpecServer /\ WF_vars(ServerStep)

(***************************************************************************)
(* Claims about the controller, read in the state in which route_request   *)
(* has returned and its caller still holds the response.                   *)
(***************************************************************************)
IsCall(r) == r.method = "tools/call"
CallsSentTo(k) == SelectSeq(sent[k], IsCall)
NameSeq(items) == [i \in DOMAIN items |-> items[i].name]
FilterError == lastResp.kind = "error" /\ lastResp.code = -32601

C1_Case == lastReq.method = "tools/call" /\ HasTool(catalog, lastReq.params.name)

C1_Routed ==
    LET e == ToolEntry(catalog, lastReq.params.name) IN
    \A k \in DOMAIN cfgs :
        CallsSentTo(k) = IF cfgs[k].name = e.upstream
                         THEN <<SentReq("tools/call", e.original_name)>>
                         ELSE <<>>

\* C1 as stated: every tools/call whose params.name is a presented name of the
\* catalog sends exactly one tools/call, to the client of the catalog's upstream
\* for that name and to no other, carrying the catalog's original name.
C1_Original == C1_Case => C1_Routed

\* C1 (amended): the same, for every such tools/call that the global
\* ORCH_INCLUDE_TOOLS / ORCH_EXCLUDE_TOOLS filter does not reject with -32601
\* (a rejected call sends nothing).
C1_RoutedUnlessFiltered == (C1_Case /\ ~FilterError) => C1_Routed

\* a catalog-known call that went to the second client although round-robin
\* pointed at the first, and whose result came back
C1_Witness ==
    /\ C1_Case /\ ~FilterError
    /\ rr = 1
    /\ CallsSentTo(2) # <<>>
    /\ lastResp.kind = "result"

Advertises(k, n) == n \in NamesOf(upTools[k])

\* C2: on a controller built from upstream processes, with no global filter
\* set, a tools/call whose name is one of the names the latest tools/list
\* returned is sent to an upstream that advertises that tool, and to no other.
C2_ListedNameReachesAdvertiser ==
    ( /\ legacy
      /\ lastReq.method = "tools/call"
      /\ env = NoEnv
      /\ lastReq.params.name \in listed )
    => \E k \in DOMAIN cfgs :
          /\ Advertises(k, lastReq.params.name)
          /\ CallsSentTo(k) # <<>>
          /\ \A j \in DOMAIN cfgs \ {k} : CallsSentTo(j) = <<>>

RECURSIVE PresentedSeqFrom(_, _)
PresentedSeqFrom(k, ok) ==
    IF k > Len(cfgs) THEN <<>>
    ELSE (IF k \in ok
          THEN LET pass == SelectSeq(upTools[k], LAMBDA it : PassesFilter(cfgs[k], it.name))
               IN [i \in DOMAIN pass |-> PresentedName(cfgs[k].name, pass[i].name)]
          ELSE <<>>)
         \o PresentedSeqFrom(k + 1, ok)

RECURSIVE DedupFirst(_)
DedupFirst(s) ==
    IF s = <<>> THEN <<>>
    ELSE LET front == DedupFirst(SubSeq(s, 1, Len(s) - 1))
         IN IF s[Len(s)] \in Range(front) THEN front ELSE Append(front, s[Len(s)])

C3_Presented ==
    LET names == NameSeq(lastResp.items) IN
    /\ \A i \in DOMAIN names :
          \E k \in DOMAIN cfgs : \E j \in DOMAIN upTools[k] :
             names[i] = PresentedName(cfgs[k].name, upTools[k][j].name)
    /\ NoRepeat(names)
    /\ names = DedupFirst(PresentedSeqFrom(1, replied.build))

\* C3 as stated: every tools/list result lists presented names
\* sanitize(upstream) + "_" + sanitize(original), none twice, in upstream
\* configuration order and then in each upstream's list order.
C3_Original == lastReq.method = "tools/list" => C3_Presented

\* C3 (amended): the same, for a controller built from upstream server
\* configurations; one built from upstream processes answers with the
\* upstreams' original names.
C3_PresentedInConfigMode == (lastReq.method = "tools/list" /\ ~legacy) => C3_Presented

\* both upstreams answered with two tools each; one presented name is shared
C3_Witness ==
    /\ lastReq.method = "tools/list" /\ ~legacy
    /\ replied.build = DOMAIN cfgs
    /\ \A k \in DOMAIN cfgs : Len(upTools[k]) = 2
    /\ Len(lastResp.items) = 3

\* C4: on a controller built from upstream processes whose upstreams all answer,
\* the names of the tools/list result are the union of the upstreams' tool
\* names, each exactly once.
C4_LegacyUnion ==
    ( /\ legacy
      /\ lastReq.method = "tools/list"
      /\ replied.agg = DOMAIN cfgs )
    => /\ NamesOf(lastResp.items) = UNION { NamesOf(upTools[k]) : k \in DOMAIN cfgs }
       /\ NoRepeat(NameSeq(lastResp.items))

\* overlapping lists: both upstreams advertise both tools
C4_Witness ==
    /\ legacy /\ lastReq.method = "tools/list" /\ replied.agg = DOMAIN cfgs
    /\ \A k \in DOMAIN cfgs : Len(upTools[k]) = 2
    /\ Len(lastResp.items) = 2

NothingSent == \A k \in DOMAIN cfgs : sent[k] = <<>>
InList(name, o) == Truthy(o) /\ name \in Range(Split(ValueOf(o)))
NotInList(name, o) == Truthy(o) /\ name \notin Range(Split(ValueOf(o)))

C13_Excluded ==
    /\ lastResp = ErrorResp(-32601, "Tool excluded", lastReq.params.name)
    /\ NothingSent
C13_NotAllowed ==
    /\ lastResp = ErrorResp(-32601, "Tool not allowed", lastReq.params.name)
    /\ NothingSent

\* C13 as stated: a tools/call whose name is in ORCH_EXCLUDE_TOOLS returns
\* -32601 "Tool excluded: <name>", one whose name is not in a set
\* ORCH_INCLUDE_TOOLS returns -32601 "Tool not allowed: <name>", and in both
\* cases nothing is sent to any upstream.
C13_Original ==
    lastReq.method = "tools/call"
    => /\ InList(lastReq.params.name, env.exclude) => C13_Excluded
       /\ NotInList(lastReq.params.name, env.include) => C13_NotAllowed

\* C13 (amended): the allow list is consulted first: a name that is not in a
\* non-empty ORCH_INCLUDE_TOOLS gets "Tool not allowed"; a name that the allow
\* list does not reject and that is in ORCH_EXCLUDE_TOOLS gets "Tool excluded";
\* in both cases nothing is sent to any upstream.
C13_IncludeBeforeExclude ==
    lastReq.method = "tools/call"
    => /\ NotInList(lastReq.params.name, env.include) => C13_NotAllowed
       /\ ( /\ ~NotInList(lastReq.params.name, env.include)
            /\ InList(lastReq.params.name, env.exclude) ) => C13_Excluded

\* an excluded call after an earlier request had been routed
C13_Witness ==
    /\ lastReq.method = "tools/call"
    /\ InList(lastReq.params.name, env.exclude)
    /\ lastResp.text = "Tool excluded"
    /\ rr = 1
    /\ catalog.built

Allowed(k, t) ==
    /\ \/ IsNone(cfgs[k].include_tools)
       \/ \E x \in ValueOf(cfgs[k].include_tools) : _sanitize(x) = _sanitize(t)
    /\ \/ IsNone(cfgs[k].exclude_tools)
       \/ \A x \in ValueOf(cfgs[k].exclude_tools) : _sanitize(x) # _sanitize(t)

\* tool t of upstream k has its entry in the catalog and its name in the result
ListedAs(k, t) ==
    /\ \E i \in DOMAIN catalog.tools :
          /\ catalog.tools[i].upstream = cfgs[k].name
          /\ catalog.tools[i].original_name = t
          /\ catalog.tools[i].presented = PresentedName(cfgs[k].name, t)
    /\ PresentedName(cfgs[k].name, t) \in NamesOf(lastResp.items)

\* another allowed tool of the same build has the same presented name
Shadowed(k, t) ==
    \E k2 \in replied.build : \E t2 \in NamesOf(upTools[k2]) :
        /\ <<k2, t2>> # <<k, t>>
        /\ Allowed(k2, t2)
        /\ PresentedName(cfgs[k2].name, t2) = PresentedName(cfgs[k].name, t)

IsDiscovery(method) == method \in {"tools/list", "prompts/list", "resources/list"}

\* the names a discovery result must hold, given who replied
ExpectedNames(method) ==
    IF method = "tools/list" /\ ~legacy
    THEN UNION { { PresentedName(cfgs[k].name, t) :
                     t \in { u \in NamesOf(upTools[k]) : Allowed(k, u) } } :
                 k \in replied.build }
    ELSE UNION { NamesOf(UpstreamList(method, k)) : k \in replied.agg }

\* C17: a discovery request whose fan-out fails on some upstreams still calls
\* every upstream, returns a result and not an error, and that result holds
\* exactly the entries of the upstreams that replied.
C17_DiscoveryToleratesFailures ==
    IsDiscovery(lastReq.method)
    => /\ lastResp.kind = "result"
       /\ \A k \in DOMAIN cfgs : \E i \in DOMAIN sent[k] : sent[k][i].method = lastReq.method
       /\ NamesOf(lastResp.items) = ExpectedNames(lastReq.method)
       /\ (lastReq.method # "tools/list" \/ legacy)
          => \A i \in DOMAIN lastResp.items :
                \E k \in replied.agg :
                    lastResp.items[i] \in Range(UpstreamList(lastReq.method, k))

\* only the second upstream answered prompts/list; only the first answered the
\* catalog build
C17_Witness ==
    /\ lastReq.method = "prompts/list"
    /\ replied.agg = {2} /\ replied.build = {1}
    /\ lastResp.items = UpPrompts(2)

\* C20: whatever route_request returns, for every method, params and upstream
\* reply, carries exactly one of the keys "result" and "error": a result has no
\* error code, an error has a code and no result items.
C20_ExactlyOneKey ==
    lastReq.method # ""
    => /\ lastResp.kind \in {"result", "error"}
       /\ lastResp.kind = "error" <=> lastResp.code # 0
       /\ lastResp.kind = "error" => lastResp.items = <<>>

\* an upstream's error reply handed back for a round-robin request
C20_Witness ==
    /\ lastReq.method = "ping"
    /\ lastResp.kind = "error"
    /\ lastResp.by = 2

(***************************************************************************)
(* Claims about one session.                                               *)
(***************************************************************************)
Started(c) == call[c].pc # "idle"
\* the request frame that the reply held by call c answers
AnsweredFrame(c) == wire[call[c].ret.re]

\* C5: the reply that completes a send call's waiter answers the very attempt
\* that is waiting; a reply to an attempt that has timed out is delivered to
\* no call, a retry of the same send included.
C5_LateReplyNeverDelivered ==
    \A c \in Calls :
        call[c].fut = "result"
        => /\ AnsweredFrame(c).call = c
           /\ AnsweredFrame(c).att = call[c].attempt

\* C6: every request frame a session writes, a retry's included, carries an id
\* that no earlier frame of the session carried.
C6_RetryWritesFreshId ==
    \A i, j \in DOMAIN wire : i < j => wire[i].id # wire[j].id

\* C7: a send call returns the reply frame whose id is the id of the request
\* this call wrote, and that frame answers a request of this call, whatever
\* the order in which the replies of concurrent calls arrive.
C7_ReplyMatchesRequest ==
    \A c \in Calls :
        call[c].pc = "returned"
        => /\ call[c].ret.id = call[c].req_id
           /\ AnsweredFrame(c).id = call[c].req_id
           /\ AnsweredFrame(c).call = c

\* the second call has returned while the first, written earlier, still waits
C7_Witness ==
    /\ call[2].pc = "returned"
    /\ call[1].pc = "waiting" /\ call[1].fut = "pending"
    /\ call[1].attempt = 0

C8_IdsDistinct ==
    /\ \A c, d \in Calls :
          (c # d /\ Started(c) /\ Started(d)) => call[c].req_id # call[d].req_id
    /\ \A c, d \in Calls :
          (c # d /\ call[c].fut = "pending" /\ call[d].fut = "pending")
          => call[c].req_id # call[d].req_id
    /\ \A id \in DOMAIN pending :
          Cardinality({ c \in Calls : call[c].fut = "pending" /\ call[c].req_id = id }) <= 1

\* C8: next_id never decreases, no two send calls obtain the same id, and no
\* two unresolved waiters share an id, under every interleaving.
C8_UniqueIds == []C8_IdsDistinct /\ [][next_id' >= next_id]_vars

\* two calls wait at once, the first of them in its retry
C8_Witness ==
    /\ call[1].fut = "pending" /\ call[1].attempt = 1
    /\ call[2].fut = "pending"
    /\ DOMAIN pending = {call[1].req_id, call[2].req_id}

\* C9: when close() runs, every waiter still in the pending table is completed
\* (with a "session closed" error), so no call keeps waiting for its timeout,
\* and the pending table is empty afterwards.
C9_CloseCompletesWaiters ==
    [][ (~closed /\ closed')
        => /\ DOMAIN pending' = {}
           /\ \A c \in Calls : call[c].fut = "pending" => call'[c].fut # "pending" ]_vars

\* C10: a send call made after close() has run, or after the reader met EOF,
\* fails at once: it writes no frame, registers no waiter and does not wait.
C10_SendAfterCloseFails ==
    [][ \A c \in Calls :
          (call[c].pc = "idle" /\ call'[c].pc # "idle" /\ (closed \/ reader = "eof"))
          => /\ wire' = wire
             /\ pending' = pending
             /\ call'[c].pc # "waiting" ]_vars

\* C11: when the reader task exits because the upstream's output reached EOF,
\* every waiter left in the pending table is completed (with an "upstream
\* disconnected" error), so no send call keeps waiting after that step.
C11_EOFCompletesWaiters ==
    [][ (reader = "running" /\ reader' = "eof")
        => /\ DOMAIN pending' = {}
           /\ \A c \in Calls : call'[c].fut # "pending" ]_vars

\* the number of request frames call c has written
WritesOf(c) == Len(SelectSeq(wire, LAMBDA f : f.call = c))

C18_Attempts ==
    \A c \in Calls :
        /\ WritesOf(c) <= call[c].retries + 1
        /\ call[c].pc \in {"waiting", "expired"} => call[c].attempt <= call[c].retries
        /\ call[c].pc = "timed_out"
           => /\ WritesOf(c) = call[c].retries + 1
              /\ call[c].attempt = call[c].retries + 1

\* C18: a send call with retries=r whose attempts all time out has written its
\* request exactly r+1 times when it raises the timeout error; no call ever
\* writes more than r+1 times or waits in an attempt later than the (r+1)-th,
\* and a call that has raised the timeout does nothing further.
C18_TimeoutAfterAllAttempts ==
    /\ []C18_Attempts
    /\ [][ \A c \in Calls : call[c].pc = "timed_out" => call'[c] = call[c] ]_vars

\* a call with one retry has raised the timeout; the upstream answered neither
\* of its two frames
C18_Witness ==
    /\ call[1].pc = "timed_out" /\ call[1].retries = 1
    /\ WritesOf(1) = 2
    /\ \A i \in DOMAIN wire : wire[i].call = 1 => replies[i] = NoMsg

FutSettled(c) == call[c].fut \in {"result", "cancelled"}

\* C19: a waiter that has been completed, cancelled or timed out keeps its
\* outcome: no later reply frame, a second frame with the same id included,
\* changes it, and the reader goes on running after reading such a frame.
C19_WaiterCompletedOnce ==
    [][ /\ \A c \in Calls :
              (FutSettled(c) /\ call[c].pc # "backoff")
              => /\ call'[c].fut = call[c].fut
                 /\ call'[c].ret = call[c].ret
        /\ (reader = "running" /\ replies' # replies /\ Len(replies') = Len(replies)
            /\ \E i \in DOMAIN replies : replies'[i].kind \in {"read", "reread"}
                                           /\ replies'[i] # replies[i])
           => reader' = "running" ]_vars

\* the reader has read a second copy of the reply that completed a call, and
\* a reply whose call had already timed out
C19_Witness ==
    /\ \E i \in DOMAIN replies :
          /\ replies[i].kind = "reread"
          /\ call[wire[i].call].fut = "result"
          /\ call[wire[i].call].ret.re = i
    /\ \E i \in DOMAIN replies :
          /\ replies[i].kind = "read"
          /\ call[wire[i].call].pc = "timed_out"

(***************************************************************************)
(* Claims about lazy start, initialize_capabilities and aclose.            *)
(***************************************************************************)
\* C12: when aclose returns, no reader task of any session is still running.
C12_CloseEndsEveryReader ==
    [][ \A t \in Tasks :
          (task[t].pc = "closing" /\ task'[t].pc = "done")
          => \A k \in Clients : \A i \in DOMAIN sessions'[k] :
                sessions'[k][i] # "running" ]_vars

\* C15: across every sequence and interleaving of initialize_capabilities and
\* route_request calls, start() of each client's session is invoked at most
\* once.
C15_StartAtMostOnce == \A k \in Clients : startCalls[k] <= 1

\* the upstreams whose initialize returned a result
Succeeded(t) == { k \in Clients : task[t].outcomes[k] = "result" }
Announcers(t, m, x) == { k \in Succeeded(t) : x \in DOMAIN UpCaps(k)[m] }

C16_Merged(t) ==
    /\ task[t].asked = Clients
    /\ \A m \in SubMaps :
          /\ DOMAIN task[t].ret[m] = UNION { DOMAIN UpCaps(k)[m] : k \in Succeeded(t) }
          /\ \A x \in DOMAIN task[t].ret[m] :
                LET last == CHOOSE k \in Announcers(t, m, x) :
                                \A j \in Announcers(t, m, x) : j <= k
                IN task[t].ret[m][x] = UpCaps(last)[m][x]

\* C16: initialize_capabilities calls initialize on every upstream, raises
\* nothing when some of them raise or time out, and returns the merge (later
\* upstreams overriding earlier ones key by key) of the capabilities of exactly
\* the upstreams whose initialize succeeded.
C16_InitializeToleratesFailures ==
    /\ [](\A t \in Tasks :
            (task[t].op = "initialize_capabilities" /\ task[t].pc = "done") => C16_Merged(t))
    /\ [][ \A t \in Tasks :
              ( /\ task[t].op = "initialize_capabilities"
                /\ task[t].pc = "ready"
                /\ task'[t] # task[t] ) => task'[t].pc = "done" ]_vars

\* the first upstream's initialize raised, the second's returned: the result
\* is the second upstream's capabilities
C16_Witness ==
    \E t \in Tasks :
        /\ task[t].op = "initialize_capabilities" /\ task[t].pc = "done"
        /\ task[t].outcomes = [k \in Clients |-> IF k = 1 THEN "raise" ELSE "result"]
        /\ task[t].ret = UpCaps(2)

(***************************************************************************)
(* Claims about the stdio server loop.                                     *)
(***************************************************************************)
\* the frames whose handling is complete
Handled ==
    { i \in 1..stdin.pos : stdin.frames[i].json /\ (i < stdin.pos \/ srv.pc # "handling") }
WritesWithId(n) == SelectSeq(log, LAMBDA e : e.ev = "write" /\ e.n = n)
CallsFor(n) == SelectSeq(log, LAMBDA e : e.ev = "call" /\ e.n = n)

C24_NotificationsDispatched ==
    \A i \in Handled :
        ( /\ srv.controller
          /\ stdin.frames[i].id = 0
          /\ stdin.frames[i].method # "initialize" )
        => /\ CallsFor(i) # <<>>
           /\ \A j \in DOMAIN log : log[j].ev = "write" => log[j].n # 0

\* C25: when the input has reached EOF and the loop has ended, shutdown is
\* flagged (so that start_stdio returns with no request_shutdown from outside).
C25_EOFFlagsShutdown == srv.pc = "draining" => shutdown_event

\* C26: reading a well-framed message whose body is not valid JSON leaves the
\* server in its loop, reading the next frame.
C26_BadJsonIsDropped ==
    [][ ( /\ stdin'.pos = stdin.pos + 1
          /\ ~stdin.frames[stdin'.pos].json ) => srv'.pc = "reading" ]_vars

\* C27 as stated: once shutdown has been requested start_stdio eventually
\* ends, and after the message in progress at the request it handles no
\* other.
C27_Original ==
    /\ shutdown_event ~> (srv.pc \in {"returned", "crashed"})
    /\ [][ (shutdown_event /\ srv.pc = "check") => srv'.pc \in {"check", "draining"} ]_vars

\* C27 (amended): once shutdown has been requested and the read in progress
\* can end (a frame is there or the input is closed), start_stdio eventually
\* returns (or fails on a frame that is not valid JSON); after the message
\* that was being read or handled when shutdown was requested, it reads and
\* handles no other.
C27_ReturnsAfterMessageInProgress ==
    /\ (shutdown_event /\ (stdin.pos < Len(stdin.frames) \/ stdin.closed))
       ~> (srv.pc \in {"returned", "crashed"})
    /\ [][ (shutdown_event /\ srv.pc \in {"check", "draining", "returned"})
           => srv'.pc \notin {"reading", "handling"} ]_vars

\* start_stdio has returned after one message, with a second frame unread and
\* the input still open
C27_Witness ==
    /\ shutdown_event
    /\ srv.pc = "returned"
    /\ stdin.pos = 1 /\ Len(stdin.frames) = 2 /\ ~stdin.closed

\* C28: the capabilities of an initialize response are, with the profile
\* "cursor", the merged tools map with empty prompts and resources maps, and
\* with any other profile or none the merged capabilities as they are.
C28_ProfileShaping ==
    (srv.pc = "check" /\ srv.msg.method = "initialize" /\ srv.msg.id # 0)
    => LET w == log[Len(log)] IN
       /\ w.ev = "write" /\ w.n = srv.msg.id /\ w.kind = "result"
       /\ w.caps["tools"] = srv.caps["tools"]
       /\ \A m \in {"prompts", "resources"} :
             w.caps[m] = IF srv.profile = "cursor" THEN EmptyDict ELSE srv.caps[m]

\* the merged capabilities had prompts and resources; the response written
\* under the profile "cursor" has only the tools
C28_Witness ==
    /\ srv.pc = "check" /\ srv.msg.method = "initialize" /\ srv.msg.id # 0
    /\ srv.profile = "cursor"
    /\ DOMAIN srv.caps["prompts"] # {} /\ DOMAIN srv.caps["resources"] # {}
    /\ log[Len(log)].caps["tools"] = srv.caps["tools"]
    /\ DOMAIN log[Len(log)].caps["prompts"] = {}

(***************************************************************************)
(* Claims about round-robin routing and session-level failures.            *)
(***************************************************************************)
\* the request in hand is neither a discovery method nor a tools/call that
\* the catalog routes nor one the global filters reject
C22_Case ==
    /\ ~Idle
    /\ ~IsDiscovery(lastReq.method)
    /\ lastReq.method = "tools/call" => (~HasTool(catalog, lastReq.params.name) /\ ~FilterError)
C22_SentOf(k) == SelectSeq(sent[k], LAMBDA r : r.method = lastReq.method)

C21_Case ==
    /\ ~Idle
    /\ lastResp.by = 0
    /\ lastResp.text # "list"
    /\ ~FilterError

\* C21: route_request always returns an envelope, it never raises; when the
\* chosen client's send or a discovery build raised, the envelope is the error
\* -32001 "Upstream request failed"; the failed request leaves the controller
\* started, with round_robin advanced by one and with the catalog it had (or
\* the one built during the request), so that a later request is served as
\* after any other request.
C21_FailureIsAnEnvelope ==
    /\ [][ ~Idle' => lastResp'.kind \in {"result", "error"} ]_vars
    /\ [][ (Idle /\ C21_Case')
           => /\ lastResp' = ErrorResp(-32001, "Upstream request failed", <<>>)
              /\ started' /\ rr' = rr + 1
              /\ catalog.built => catalog' = catalog
              /\ cfgs' = cfgs ]_vars
    /\ [][ (lastResp = ErrorResp(-32001, "Upstream request failed", <<>>) /\ Idle' /\ rr < MaxRR)
           => (ENABLED RouteOther("ping", "result"))' ]_vars

\* a tools/list during which the build raised has returned the error; the
\* catalog of the earlier request is still there
C21_Witness ==
    /\ lastReq.method = "tools/list"
    /\ lastResp = ErrorResp(-32001, "Upstream request failed", <<>>)
    /\ rr = 2
    /\ catalog.built /\ catalog.tools # <<>>

(***************************************************************************)
(* Claims about collisions in the catalog and the pending table.           *)
(***************************************************************************)
\* the pairs (client, position in its list) whose tool was offered to the
\* build under the presented name p
C29_Offers(p) ==
    { <<k, i>> \in replied.build \X (1..Cardinality(Items)) :
        /\ i \in DOMAIN upTools[k]
        /\ Allowed(k, upTools[k][i].name)
        /\ PresentedName(cfgs[k].name, upTools[k][i].name) = p }
C29_Before(x, y) == x[1] < y[1] \/ (x[1] = y[1] /\ x[2] <= y[2])
C29_First(p) == CHOOSE x \in C29_Offers(p) : \A y \in C29_Offers(p) : C29_Before(x, y)

\* C29: after a catalog build, the entry under a presented name is the one of
\* the first tool offered under that name, by upstream configuration order and
\* then list order: its descriptor, its upstream and its original name.
C29_FirstEntryStays ==
    (~Idle /\ lastReq.method = "tools/list")
    => \A e \in Range(catalog.tools) :
         /\ C29_Offers(e.presented) # {}
         /\ LET k == C29_First(e.presented)[1]
                it == upTools[k][C29_First(e.presented)[2]]
            IN /\ e.upstream = cfgs[k].name
               /\ e.original_name = it.name
               /\ e.item = PresentedItem(cfgs[k].name, it)

\* C30: once a send_request call has completed, by a reply, by its final
\* timeout or by a write error, the id it registered is not in the pending
\* table.
C30_CompletedCallLeavesNoId ==
    \A c \in Calls :
        call[c].pc \in {"returned", "timed_out", "write_failed"}
        => call[c].req_id \notin DOMAIN pending

C36_OnlyRoundRobinCounts ==
    [][ (Idle /\ ~Idle')
        => /\ (IsDiscovery(lastReq'.method) \/ C1_Case') => rr' = rr
           /\ rr' # rr => C22_Case' ]_vars

\* C38: after a catalog build every tool that an answering upstream
\* advertises and that passes the filters has its own catalog entry, under a
\* presented name that no other (upstream, tool) pair received.
C38_EveryToolHasItsEntry ==
    (~Idle /\ lastReq.method = "tools/list")
    => \A k \in replied.build : \A i \in DOMAIN upTools[k] :
         Allowed(k, upTools[k][i].name)
         => /\ C29_Offers(PresentedName(cfgs[k].name, upTools[k][i].name)) = {<<k, i>>}
            /\ \E e \in Range(catalog.tools) :
                  /\ e.upstream = cfgs[k].name
                  /\ e.original_name = upTools[k][i].name

(***************************************************************************)
(* Claims about the allow list and requests without a tool name.           *)
(***************************************************************************)
\* C37: while ORCH_INCLUDE_TOOLS is set, a tools/call request is sent to an
\* upstream only if the params of the request in hand are a map whose name
\* is a string contained in the allow list.
C37_AllowListGuardsEveryCall ==
    (Truthy(env.include) /\ \E k \in DOMAIN cfgs : CallsSentTo(k) # <<>>)
    => /\ lastReq.params.kind = "dict"
       /\ InList(lastReq.params.name, env.include)

(***************************************************************************)
(* Claims about the stdout guard.                                          *)
(***************************************************************************)
\* C35: while a guard's scope is entered sys.stdout is the real stdout, and
\* leaving a scope rebinds sys.stdout to what it was bound to just before
\* that scope was entered.
C35_ScopeRestoresPriorBinding ==
    /\ []( (\E g \in Guards : guards[g].pc = "entered") => sys_stdout = "real" )
    /\ [][ \A g \in Guards :
             (guards[g].pc = "entered" /\ guards'[g].pc = "exited")
             => sys_stdout' = guards[g].before ]_vars

(***************************************************************************)
(* Claims about the frame decoders.                                        *)
(***************************************************************************)
ExpectedMessages == [m \in 1..NumFrames |-> m]
IsPrefix(a, b) == Len(a) <= Len(b) /\ a = SubSeq(b, 1, Len(a))

\* C34: whatever unknown header lines the frames carry, before or after
\* Content-Length, and however Content-Length is capitalized, each decoder
\* decodes the messages of the stream in order, none lost and none in
\* addition, and ends at the end of the stream without raising.
C34_DecodersIgnoreUnknownHeaders ==
    \A d \in {"framer", "reader"} :
        /\ dec[d].pc # "raised"
        /\ IsPrefix(dec[d].msgs, ExpectedMessages)
        /\ dec[d].pc = "eof" => dec[d].msgs = ExpectedMessages

(***************************************************************************)
(* Claims about the order of a session's writes and its readers.           *)
(***************************************************************************)
\* C31: the request frames on a session's wire carry strictly increasing ids,
\* in the order in which they were written.
C31_WrittenInIdOrder ==
    \A i, j \in DOMAIN wire : i < j => wire[i].id < wire[j].id

\* C32: however often start() has been called on a client, at most one reader
\* task reads that upstream's output, and the session created first (with its
\* pending table) is still the client's only one.
C32_StartIsIdempotent ==
    \A k \in Clients :
        /\ Cardinality({ i \in DOMAIN sessions[k] : sessions[k][i] = "running" }) <= 1
        /\ Len(sessions[k]) <= 1

\* C33: a step that writes a request frame leaves the waiter of the writing
\* attempt registered under the frame's id, and while an attempt waits for
\* its reply with the request on the wire its id is in the pending table, so
\* that the reader finds a waiter for the reply to any written request that
\* is still awaited.
C33_RegisteredBeforeWritten ==
    /\ [][ Len(wire') > Len(wire)
           => LET f == wire'[Len(wire')] IN
              /\ f.id \in DOMAIN pending'
              /\ pending'[f.id] = Fut(f.call, f.att) ]_vars
    /\ [](\A c \in Calls :
            (call[c].pc = "waiting" /\ call[c].fut = "pending")
            => /\ call[c].req_id \in DOMAIN pending
               /\ pending[call[c].req_id] = Fut(c, call[c].attempt)
               /\ \E i \in DOMAIN wire : wire[i] = Frame(call[c].req_id, c, call[c].attempt))

\* the retry of the first call has been written while the second call waits:
\* both are registered
C33_Witness ==
    /\ Len(wire) = 3
    /\ wire[3].att = 1
    /\ call[wire[3].call].pc = "waiting" /\ call[wire[3].call].fut = "pending"
    /\ Cardinality(DOMAIN pending) = 2

(***************************************************************************)
(* Claims about the catalog during a build.                                *)
(***************************************************************************)
CompleteCatalogs == { _build_catalog(ok) : ok \in SUBSET Clients }

\* C39: self._catalog changes only in the step that ends a build, to that
\* build's completely filled catalog; it is always either absent or a
\* complete catalog, and so is what a tools/call reads; a build that raises
\* leaves it as it was.
C39_CatalogReplacedWhenComplete ==
    /\ [][ catalog' # catalog
           => \E t \in Builders :
                /\ builds[t].pc = "resources" /\ builds'[t].pc = "done"
                /\ builds'[t].local.filled = Sections
                /\ catalog' = [built |-> TRUE, tools |-> builds'[t].local.tools] ]_vars
    /\ [](catalog \in {NoCatalog} \cup CompleteCatalogs)
    /\ [](\A t \in Builders : builds[t].seen \in {NoCatalog} \cup CompleteCatalogs)
    /\ [][ \A t \in Builders :
             (builds[t].pc # "raised" /\ builds'[t].pc = "raised") => catalog' = catalog ]_vars

\* the second build is suspended with its tools filled in while the catalog
\* is still the first build's, which differs
C39_Witness ==
    /\ builds[1].pc = "done"
    /\ builds[2].pc = "prompts"
    /\ builds[2].local.tools # <<>>
    /\ catalog.built
    /\ catalog.tools # builds[2].local.tools

====
